---- MODULE Spec2Model ----
(***************************************************************************)
(* A model of the framehop unwinding engine: the x86-64 unwind rules and   *)
(* their execution (src/src/x86_64/unwind_rule.rs), the direct-mapped rule *)
(* cache (src/src/rule_cache.rs) and the module registry and dispatcher of *)
(* UnwinderInternal (src/src/unwinder.rs).                                 *)
(*                                                                         *)
(* Machine integers are modelled with a reduced width: a u64 is a number   *)
(* in 0 .. U64Max with U64Max = 2^WordBits - 1, and the 16-bit modules     *)
(* generation is a number in 0 .. GenerationModulus - 1.  Every checked,   *)
(* wrapping or unchecked operation of the source keeps its behaviour at    *)
(* the reduced width.                                                      *)
(***************************************************************************)
EXTENDS Integers, Naturals, Sequences, FiniteSets, TLC

VARIABLES
    \* ---- rule execution (SpecExec) ----
    regs,             \* UnwindRegsX86_64: [ip, sp, bp]
    read_stack,       \* the caller's read_stack callback (a memory model)
    overflow_checks,  \* whether the build panics on arithmetic overflow
    exec_last,        \* the last exec call: rule, registers before, outcome
    exec_steps,       \* number of exec calls so far
    \* ---- RuleCache (SpecCache, Spec) ----
    entries,          \* the populated slots: slot -> CacheEntry (absent = None)
    stats,            \* CacheStats
    handles,          \* CacheHandles a caller of the cache still holds
    cache_hist,       \* the lookup and insert calls made on the cache, in order
    \* ---- unwinders sharing one cache (Spec) ----
    GLOBAL_MODULES_GENERATION,  \* the process-wide AtomicU16
    unwinders,        \* UnwinderInternal per instance: [created, modules, modules_generation]
    last,             \* the last call made on an unwinder and what it did
    \* history variables: they record, and decide nothing
    bumps,            \* number of fetch_add calls on the global generation so far
    unwinder_ghost,   \* per instance: which fetch_add gave it its generation
    entry_ghost,      \* per populated slot: who inserted the entry, when, for which frame kind
    \* ---- an UnwindIterator over unwinder 1 (SpecIter) ----
    state,            \* UnwindIteratorState
    adapter,          \* the format adapter of the module's unwind data
    iter_last,        \* the last next() call and what it did
    next_calls,       \* number of next() calls so far
    \* ---- module construction (SpecModule) ----
    module_last,      \* the last Module::new call: its inputs and the module built
    \* ---- the compact unwind info adapter (SpecMacho) ----
    cui_last,         \* the last call of the adapter: its inputs and its result
    \* ---- threads that own one unwinder each (SpecThreads) ----
    threads           \* per thread: the call in progress and what its fetch_add returned

exec_vars == <<regs, read_stack, overflow_checks, exec_last, exec_steps>>
cache_vars == <<entries, stats, handles, cache_hist>>

unwinder_vars == <<GLOBAL_MODULES_GENERATION, unwinders, last,
                   bumps, unwinder_ghost, entry_ghost>>

iter_vars == <<state, adapter, iter_last, next_calls>>

format_vars == <<module_last, cui_last>>

vars == <<regs, read_stack, overflow_checks, exec_last, exec_steps,
          entries, stats, handles, cache_hist,
          GLOBAL_MODULES_GENERATION, unwinders, last,
          bumps, unwinder_ghost, entry_ghost,
          state, adapter, iter_last, next_calls,
          module_last, cui_last, threads>>

----------------------------------------------------------------------------
(* Bounds of the model *)

\* width of a machine word of the model (u64 in the source)
WordBits == 24
\* number of exec calls applied in a row to one register set
MaxExecSteps == 4
\* number of values of the modules generation (2^16 in the source)
GenerationModulus == 2
\* number of lookup and insert calls made directly on a cache
MaxCacheOps == 5
\* number of CacheHandles a caller holds at once
MaxHandles == 1
\* width of a relative address of the model (u32 in the source)
RelativeAddressBits == 12
\* number of fetch_add calls on the global generation (new, add_module, remove_module)
MaxBumps == 3
\* number of unwind_frame calls
MaxLookups == 2
\* number of modules registered with one unwinder
MaxModules == 2
\* next() calls on the iterator
MaxNextCalls == 6

U64Modulus == 2 ^ WordBits
U64Max == U64Modulus - 1
U32Max == 2 ^ RelativeAddressBits - 1
U16Max == 65535
I16Min == -32768
I16Max == 32767

----------------------------------------------------------------------------
(* Option and Result values *)

None == [some |-> FALSE, val |-> 0]
Some(v) == [some |-> TRUE, val |-> v]

\* Result<Option<u64>, Error>, plus the panic of an overflow-checked build
OkSome(ra) == [kind |-> "Some", err |-> "", val |-> ra]
OkNone == [kind |-> "None", err |-> "", val |-> 0]
Err(e, a) == [kind |-> "Err", err |-> e, val |-> a]
Panic == [kind |-> "Panic", err |-> "", val |-> 0]

----------------------------------------------------------------------------
(* UnwindRuleX86_64 *)

JustReturn ==
    [kind |-> "JustReturn", sp_offset_by_8 |-> 0, bp_storage_offset_from_sp_by_8 |-> 0]
OffsetSp(n) ==
    [kind |-> "OffsetSp", sp_offset_by_8 |-> n, bp_storage_offset_from_sp_by_8 |-> 0]
OffsetSpAndRestoreBp(n, k) ==
    [kind |-> "OffsetSpAndRestoreBp", sp_offset_by_8 |-> n,
     bp_storage_offset_from_sp_by_8 |-> k]
UseFramePointer ==
    [kind |-> "UseFramePointer", sp_offset_by_8 |-> 0, bp_storage_offset_from_sp_by_8 |-> 0]

fallback_rule == UseFramePointer

----------------------------------------------------------------------------
(* The read_stack callback: FnMut(u64) -> Result<u64, ()>.                 *)
(* "array" is the closure of the unit tests, |addr| stack[addr / 8], which *)
(* fails outside the captured buffer; "script" is a stateful callback that *)
(* answers its first and second call with fixed results.                   *)

test_stack ==
    <<1, 2, 1049344, 4, 64, 1049088, 5, 6, 112, 1048832, 7, 8, 9, 10, 0, 0>>

ArrayStack == [kind |-> "array", first |-> None, second |-> None]
ScriptStack(r1, r2) == [kind |-> "script", first |-> r1, second |-> r2]
\* a callback that reads a stack buffer of the given words and fails outside it
MemoryStack(words) == [kind |-> "memory", first |-> None, second |-> None,
                       words |-> words]

\* the result of the n-th call (n = 0, 1) of callback rs at address addr
ReadStack(rs, addr, n) ==
    IF rs.kind = "array"
    THEN IF addr \div 8 < Len(test_stack) THEN Some(test_stack[(addr \div 8) + 1])
         ELSE None
    ELSE IF rs.kind = "memory"
    THEN IF addr \div 8 < Len(rs.words) THEN Some(rs.words[(addr \div 8) + 1])
         ELSE None
    ELSE IF n = 0 THEN rs.first ELSE rs.second

----------------------------------------------------------------------------
(* Integer helpers of unwind_rule.rs *)

checked_add(lhs, rhs) == IF lhs + rhs > U64Max THEN None ELSE Some(lhs + rhs)

\* rhs as u64
as_u64(rhs) == IF rhs >= 0 THEN rhs ELSE rhs + U64Modulus

wrapping_add_signed(lhs, rhs) == (lhs + as_u64(rhs)) % U64Modulus

\* a checked_add_signed that lost its direction check
checked_add_signed_unchecked(lhs, rhs) == Some(wrapping_add_signed(lhs, rhs))

checked_add_signed(lhs, rhs) ==
    LET res == wrapping_add_signed(lhs, rhs)
    IN  IF (rhs >= 0 /\ res >= lhs) \/ (rhs < 0 /\ res < lhs) THEN Some(res) ELSE None

----------------------------------------------------------------------------
(* UnwindRuleX86_64::exec.  The outcome is the returned value (or the      *)
(* panic), the registers after the call and the log of read_stack calls.   *)

Outcome(result, r, reads) == [result |-> result, regs |-> r, reads |-> reads]

\* a return that does not test the return address it read for null
exec_return_without_null_test(r, rs, checks, new_sp, new_bp, reads) ==
    LET addr == (new_sp + U64Modulus - 8) % U64Modulus
        got == ReadStack(rs, addr, Len(reads))
        log == Append(reads, [addr |-> addr, res |-> got])
    IN  IF new_sp < 8 /\ checks THEN Outcome(Panic, r, reads)
        ELSE IF ~got.some THEN Outcome(Err("CouldNotReadStack", addr), r, log)
        ELSE Outcome(OkSome(got.val),
                     [ip |-> got.val, sp |-> new_sp, bp |-> new_bp], log)

\* a return that writes sp and bp before it reads the return address
exec_return_committing_early(r, rs, checks, new_sp, new_bp, reads) ==
    LET addr == (new_sp + U64Modulus - 8) % U64Modulus
        got == ReadStack(rs, addr, Len(reads))
        log == Append(reads, [addr |-> addr, res |-> got])
        moved == [ip |-> r.ip, sp |-> new_sp, bp |-> new_bp]
    IN  IF new_sp < 8 /\ checks THEN Outcome(Panic, moved, reads)
        ELSE IF ~got.some THEN Outcome(Err("CouldNotReadStack", addr), moved, log)
        ELSE IF got.val = 0 THEN Outcome(OkNone, moved, log)
        ELSE Outcome(OkSome(got.val), [moved EXCEPT !.ip = got.val], log)

\* lines 134-142: read the return address at new_sp - 8 and commit
exec_return(r, rs, checks, new_sp, new_bp, reads) ==
    IF new_sp < 8 /\ checks
    THEN Outcome(Panic, r, reads)
    ELSE LET addr == (new_sp + U64Modulus - 8) % U64Modulus
             got == ReadStack(rs, addr, Len(reads))
             log == Append(reads, [addr |-> addr, res |-> got])
         IN  IF ~got.some THEN Outcome(Err("CouldNotReadStack", addr), r, log)
             ELSE IF got.val = 0 THEN Outcome(OkNone, r, log)
             ELSE Outcome(OkSome(got.val),
                          [ip |-> got.val, sp |-> new_sp, bp |-> new_bp], log)

exec_JustReturn(r, rs, checks) ==
    LET new_sp == checked_add(r.sp, 8)
    IN  IF ~new_sp.some THEN Outcome(Err("IntegerOverflow", 0), r, <<>>)
        ELSE exec_return(r, rs, checks, new_sp.val, r.bp, <<>>)

\* an OffsetSp that adds the offset without scaling it by 8
exec_OffsetSp_unscaled(rule, r, rs, checks) ==
    LET new_sp == checked_add(r.sp, rule.sp_offset_by_8)
    IN  IF ~new_sp.some THEN Outcome(Err("IntegerOverflow", 0), r, <<>>)
        ELSE exec_return(r, rs, checks, new_sp.val, r.bp, <<>>)

exec_OffsetSp(rule, r, rs, checks) ==
    LET sp_offset == rule.sp_offset_by_8 * 8
        new_sp == checked_add(r.sp, sp_offset)
    IN  IF ~new_sp.some THEN Outcome(Err("IntegerOverflow", 0), r, <<>>)
        ELSE exec_return(r, rs, checks, new_sp.val, r.bp, <<>>)

exec_OffsetSpAndRestoreBp(rule, r, rs, checks) ==
    LET sp_offset == rule.sp_offset_by_8 * 8
        new_sp == checked_add(r.sp, sp_offset)
        bp_storage_offset_from_sp == rule.bp_storage_offset_from_sp_by_8 * 8
        bp_location == checked_add_signed(r.sp, bp_storage_offset_from_sp)
        new_bp == ReadStack(rs, bp_location.val, 0)
        log == <<[addr |-> bp_location.val, res |-> new_bp]>>
    IN  IF ~new_sp.some THEN Outcome(Err("IntegerOverflow", 0), r, <<>>)
        ELSE IF ~bp_location.some THEN Outcome(Err("IntegerOverflow", 0), r, <<>>)
        ELSE IF ~new_bp.some
             THEN Outcome(Err("CouldNotReadStack", bp_location.val), r, log)
        ELSE exec_return(r, rs, checks, new_sp.val, new_bp.val, log)

\* a UseFramePointer that reads *bp before it tests bp == 0
exec_UseFramePointer_read_first(r, rs, checks) ==
    LET new_bp == ReadStack(rs, r.bp, 0)
        log == <<[addr |-> r.bp, res |-> new_bp]>>
    IN  IF r.bp = 0 THEN Outcome(OkNone, r, log)
        ELSE IF ~new_bp.some THEN Outcome(Err("CouldNotReadStack", r.bp), r, log)
        ELSE exec_return(r, rs, checks, r.bp + 16, new_bp.val, log)

exec_UseFramePointer_any_direction(r, rs, checks) ==
    LET new_sp == checked_add(r.bp, 16)
        new_bp == ReadStack(rs, r.bp, 0)
        log == <<[addr |-> r.bp, res |-> new_bp]>>
    IN  IF r.bp = 0 THEN Outcome(OkNone, r, <<>>)
        ELSE IF ~new_sp.some THEN Outcome(Err("IntegerOverflow", 0), r, <<>>)
        ELSE IF ~new_bp.some THEN Outcome(Err("CouldNotReadStack", r.bp), r, log)
        ELSE exec_return(r, rs, checks, new_sp.val, new_bp.val, log)

exec_UseFramePointer(r, rs, checks) ==
    LET sp == r.sp
        bp == r.bp
        new_sp == checked_add(bp, 16)
        new_bp == ReadStack(rs, bp, 0)
        log == <<[addr |-> bp, res |-> new_bp]>>
    IN  IF bp = 0 THEN Outcome(OkNone, r, <<>>)
        ELSE IF ~new_sp.some THEN Outcome(Err("IntegerOverflow", 0), r, <<>>)
        ELSE IF new_sp.val <= sp
             THEN Outcome(Err("FramepointerUnwindingMovedBackwards", 0), r, <<>>)
        ELSE IF ~new_bp.some THEN Outcome(Err("CouldNotReadStack", bp), r, log)
        ELSE exec_return(r, rs, checks, new_sp.val, new_bp.val, log)

exec(rule, r, rs, checks) ==
    CASE rule.kind = "JustReturn" -> exec_JustReturn(r, rs, checks)
      [] rule.kind = "OffsetSp" -> exec_OffsetSp(rule, r, rs, checks)
      [] rule.kind = "OffsetSpAndRestoreBp" -> exec_OffsetSpAndRestoreBp(rule, r, rs, checks)
      [] rule.kind = "UseFramePointer" -> exec_UseFramePointer(r, rs, checks)

----------------------------------------------------------------------------
(* RuleCache: 509 optional slots and the statistics.  entries maps the     *)
(* populated slots to their CacheEntry; a slot outside its domain is None. *)

CacheSlots == 509

EmptyEntries == [slot \in {} |-> 0]
NewStats == [hit_count |-> 0, miss_empty_slot_count |-> 0,
             miss_wrong_modules_count |-> 0, miss_wrong_address_count |-> 0]

CacheHandle(slot, address, modules_generation) ==
    [slot |-> slot, address |-> address, modules_generation |-> modules_generation]
CacheEntry(address, modules_generation, unwind_rule) ==
    [address |-> address, modules_generation |-> modules_generation,
     unwind_rule |-> unwind_rule]

\* CacheResult: Hit(rule) or Miss(handle), with the statistics after the call
Hit(rule, st) ==
    [hit |-> TRUE, rule |-> rule, handle |-> CacheHandle(0, 0, 0), stats |-> st]
Miss(handle, st) ==
    [hit |-> FALSE, rule |-> JustReturn, handle |-> handle, stats |-> st]

Bump(st, counter) == [st EXCEPT ![counter] = @ + 1]

\* the slot of an address computed as the low bits of the address
slot_of_low_bits(address) == address % 512

slot_of(address) == address % CacheSlots

\* a lookup that does not compare the stored generation
lookup_ignoring_generation(es, st, address, modules_generation) ==
    LET slot == slot_of(address)
    IN  IF slot \notin DOMAIN es
        THEN Miss(CacheHandle(slot, address, modules_generation),
                  Bump(st, "miss_empty_slot_count"))
        ELSE IF es[slot].address = address
             THEN Hit(es[slot].unwind_rule, Bump(st, "hit_count"))
             ELSE Miss(CacheHandle(slot, address, modules_generation),
                       Bump(st, "miss_wrong_address_count"))

\* a lookup that does not compare the stored address
lookup_ignoring_address(es, st, address, modules_generation) ==
    LET slot == slot_of(address)
        handle == CacheHandle(slot, address, modules_generation)
    IN  IF slot \notin DOMAIN es
        THEN Miss(handle, Bump(st, "miss_empty_slot_count"))
        ELSE IF es[slot].modules_generation = modules_generation
             THEN Hit(es[slot].unwind_rule, Bump(st, "hit_count"))
             ELSE Miss(handle, Bump(st, "miss_wrong_modules_count"))

\* a lookup that counts its two kinds of misses on a populated slot under
\* each other's counter
lookup_miss_counters_swapped(es, st, address, modules_generation) ==
    LET slot == slot_of(address)
        handle == CacheHandle(slot, address, modules_generation)
    IN  IF slot \notin DOMAIN es
        THEN Miss(handle, Bump(st, "miss_empty_slot_count"))
        ELSE IF es[slot].modules_generation = modules_generation
             THEN IF es[slot].address = address
                  THEN Hit(es[slot].unwind_rule, Bump(st, "hit_count"))
                  ELSE Miss(handle, Bump(st, "miss_wrong_modules_count"))
             ELSE Miss(handle, Bump(st, "miss_wrong_address_count"))

\* a lookup that returns a Hit without counting it
lookup_uncounted_hit(es, st, address, modules_generation) ==
    LET slot == slot_of(address)
        handle == CacheHandle(slot, address, modules_generation)
    IN  IF slot \notin DOMAIN es
        THEN Miss(handle, Bump(st, "miss_empty_slot_count"))
        ELSE IF es[slot].modules_generation = modules_generation
             THEN IF es[slot].address = address
                  THEN Hit(es[slot].unwind_rule, st)
                  ELSE Miss(handle, Bump(st, "miss_wrong_address_count"))
             ELSE Miss(handle, Bump(st, "miss_wrong_modules_count"))

lookup(es, st, address, modules_generation) ==
    LET slot == slot_of(address)
        handle == CacheHandle(slot, address, modules_generation)
    IN  IF slot \notin DOMAIN es
        THEN Miss(handle, Bump(st, "miss_empty_slot_count"))
        ELSE IF es[slot].modules_generation = modules_generation
             THEN IF es[slot].address = address
                  THEN Hit(es[slot].unwind_rule, Bump(st, "hit_count"))
                  ELSE Miss(handle, Bump(st, "miss_wrong_address_count"))
             ELSE Miss(handle, Bump(st, "miss_wrong_modules_count"))

\* an insert that empties every other slot
insert_dropping_other_slots(es, handle, unwind_rule) ==
    [slot \in {handle.slot} |->
        CacheEntry(handle.address, handle.modules_generation, unwind_rule)]

\* an insert that stores the rule without the handle's generation
insert_without_generation(es, handle, unwind_rule) ==
    [slot \in DOMAIN es \cup {handle.slot} |->
        IF slot = handle.slot
        THEN CacheEntry(handle.address, 0, unwind_rule)
        ELSE es[slot]]

insert(es, handle, unwind_rule) ==
    [slot \in DOMAIN es \cup {handle.slot} |->
        IF slot = handle.slot
        THEN CacheEntry(handle.address, handle.modules_generation, unwind_rule)
        ELSE es[slot]]

----------------------------------------------------------------------------
(* The global generation, the module registry and the dispatcher of        *)
(* UnwinderInternal.                                                       *)

\* a generation source that never advances the counter
next_global_modules_generation_stuck(counter) ==
    [value |-> counter, counter |-> counter]

\* a generation source whose counter never wraps
next_global_modules_generation_unbounded(counter) ==
    [value |-> counter, counter |-> counter + 1]

next_global_modules_generation(counter) ==
    [value |-> counter, counter |-> (counter + 1) % GenerationModulus]

Module(avma_start, avma_end, base_avma, unwind_data) ==
    [avma_start |-> avma_start, avma_end |-> avma_end, base_avma |-> base_avma,
     unwind_data |-> unwind_data]

\* ModuleSectionInfo::section_data: a section_info is the set of the names of
\* the sections whose data the module source provides
section_data(section_info, name) == name \in section_info

\* a variant selection that falls through to .debug_frame when the index of
\* .eh_frame cannot be built
ModuleUnwindDataInternal_new_falling_through(section_info, eh_frame_index, debug_frame_index) ==
    IF section_data(section_info, "__unwind_info")
    THEN "CompactUnwindInfoAndEhFrame"
    ELSE IF section_data(section_info, ".eh_frame")
            /\ section_data(section_info, ".eh_frame_hdr")
    THEN "EhFrameHdrAndEhFrame"
    ELSE IF section_data(section_info, ".eh_frame") /\ eh_frame_index = "Ok"
    THEN "DwarfCfiIndexAndEhFrame"
    ELSE IF section_data(section_info, ".debug_frame") /\ debug_frame_index = "Ok"
    THEN "DwarfCfiIndexAndDebugFrame"
    ELSE "None"

\* ModuleUnwindDataInternal::new.  eh_frame_index and debug_frame_index are
\* what DwarfCfiIndex::try_new_eh_frame and try_new_debug_frame return for
\* the section, when they are called: "Ok" or "Err"
ModuleUnwindDataInternal_new(section_info, eh_frame_index, debug_frame_index) ==
    IF section_data(section_info, "__unwind_info")
    THEN "CompactUnwindInfoAndEhFrame"
    ELSE IF section_data(section_info, ".eh_frame")
    THEN IF section_data(section_info, ".eh_frame_hdr")
         THEN "EhFrameHdrAndEhFrame"
         ELSE IF eh_frame_index = "Ok"
              THEN "DwarfCfiIndexAndEhFrame"
              ELSE "None"
    ELSE IF section_data(section_info, ".debug_frame")
    THEN IF debug_frame_index = "Ok"
         THEN "DwarfCfiIndexAndDebugFrame"
         ELSE "None"
    ELSE "None"

\* Module::new
Module_new(avma_range, base_avma, section_info, eh_frame_index, debug_frame_index) ==
    Module(avma_range.start, avma_range.end, base_avma,
           ModuleUnwindDataInternal_new(section_info, eh_frame_index,
                                        debug_frame_index))

NotCreated == [created |-> FALSE, modules |-> <<>>, modules_generation |-> 0]

\* slice::binary_search_by_key over the modules' avma_start, with 0-based
\* indexes: Ok(i) for a module that starts at key (any of them, when several
\* do), else Err(i) with i the insertion point.  The results are a set.
binary_search_by_key(modules, key) ==
    LET matches == {i \in 1 .. Len(modules) : modules[i].avma_start = key}
        below == {i \in 1 .. Len(modules) : modules[i].avma_start < key}
    IN  IF matches # {}
        THEN {[found |-> TRUE, index |-> i - 1] : i \in matches}
        ELSE {[found |-> FALSE, index |-> Cardinality(below)]}

\* Vec::insert and Vec::remove at a 0-based index
VecInsert(v, index, x) == SubSeq(v, 1, index) \o <<x>> \o SubSeq(v, index + 1, Len(v))
VecRemove(v, index) == SubSeq(v, 1, index) \o SubSeq(v, index + 2, Len(v))

\* UnwinderInternal::new
new(counter) ==
    LET g == next_global_modules_generation(counter)
    IN  [unwinder |-> [created |-> TRUE, modules |-> <<>>, modules_generation |-> g.value],
         counter |-> g.counter]

\* an add_module that leaves modules_generation alone
add_module_keeping_generation(unwinder, module, search, counter) ==
    [unwinder |-> [unwinder EXCEPT !.modules = VecInsert(@, search.index, module)],
     counter |-> counter]

\* an add_module that appends the module to the list
add_module_appending(unwinder, module, search, counter) ==
    LET g == next_global_modules_generation(counter)
    IN  [unwinder |-> [unwinder EXCEPT !.modules = Append(@, module),
                                       !.modules_generation = g.value],
         counter |-> g.counter]

\* add_module; search is the result of the binary search for module.avma_start
add_module(unwinder, module, search, counter) ==
    LET g == next_global_modules_generation(counter)
    IN  [unwinder |-> [unwinder EXCEPT !.modules = VecInsert(@, search.index, module),
                                       !.modules_generation = g.value],
         counter |-> g.counter]

\* a remove_module that takes a new generation even when it removes nothing
remove_module_always_bumping(unwinder, search, counter) ==
    LET g == next_global_modules_generation(counter)
    IN  [unwinder |-> [unwinder EXCEPT
                          !.modules = IF search.found THEN VecRemove(@, search.index)
                                      ELSE @,
                          !.modules_generation = g.value],
         counter |-> g.counter]

\* remove_module; search is the result of the binary search for the start address
remove_module(unwinder, search, counter) ==
    LET g == next_global_modules_generation(counter)
    IN  IF search.found
        THEN [unwinder |-> [unwinder EXCEPT !.modules = VecRemove(@, search.index),
                                            !.modules_generation = g.value],
              counter |-> g.counter]
        ELSE [unwinder |-> unwinder, counter |-> counter]

\* a lookup that accepts addresses below the module's base address
find_module_for_address_ignoring_base(modules, address, search) ==
    LET i == IF search.found THEN search.index ELSE search.index - 1
        module == modules[i + 1]
    IN  IF ~search.found /\ search.index = 0 THEN None
        ELSE IF ~search.found /\ module.avma_end <= address THEN None
        ELSE [some |-> TRUE,
              val |-> [module_index |-> i,
                       relative_address |-> (address + U64Modulus - module.base_avma)
                                               % (U32Max + 1)]]

\* max_known_code_address
max_known_code_address(modules) ==
    IF modules = <<>> THEN 0 ELSE modules[Len(modules)].avma_end

\* find_module_for_address; search is the result of the binary search for
\* address.  Some([module_index, relative_address]) or None.
find_module_for_address(modules, address, search) ==
    LET i == IF search.found THEN search.index ELSE search.index - 1
        module == modules[i + 1]
        found == [some |-> TRUE,
                  val |-> [module_index |-> i,
                           relative_address |-> address - module.base_avma]]
    IN  IF ~search.found /\ search.index = 0 THEN None
        ELSE IF ~search.found /\ module.avma_end <= address THEN None
        ELSE IF address < module.base_avma THEN None
        ELSE IF address - module.base_avma > U32Max THEN None
        ELSE found

\* FrameAddress, and its address_for_lookup and is_return_address
InstructionPointer(pc) == [kind |-> "InstructionPointer", addr |-> pc]
ReturnAddress(ra) == [kind |-> "ReturnAddress", addr |-> ra]
is_return_address(address) == address.kind = "ReturnAddress"
\* a lookup address that is the frame's address for both kinds of frames
address_for_lookup_unadjusted(address) == address.addr

address_for_lookup(address) ==
    IF is_return_address(address) THEN address.addr - 1 ELSE address.addr

\* Result<UnwindResult<R>, UnwinderError> of the callback, and the registers
\* the callback left (an Uncacheable recovery writes them itself)
ExecRuleResult(rule) ==
    [kind |-> "ExecRule", rule |-> rule, return_address |-> 0, err |-> ""]
Uncacheable(return_address) ==
    [kind |-> "Uncacheable", rule |-> JustReturn, return_address |-> return_address,
     err |-> ""]
UnwinderError(e) ==
    [kind |-> "Err", rule |-> JustReturn, return_address |-> 0, err |-> e]
NotCalled ==
    [kind |-> "NotCalled", rule |-> JustReturn, return_address |-> 0, err |-> ""]

\* unwind_frame_impl: a module without unwind data fails with
\* NoModuleUnwindData; every other variant answers what its format adapter
\* (compact unwind info, DWARF CFI) answers
unwind_frame_impl(module, adapter_result) ==
    IF module.unwind_data = "None" THEN UnwinderError("NoModuleUnwindData")
    ELSE adapter_result

\* a rule choice that caches a stand-in rule for an Uncacheable result
rule_on_miss_caching_uncacheable(module_found, callback_result) ==
    IF ~module_found THEN [cacheable |-> TRUE, rule |-> fallback_rule]
    ELSE IF callback_result.kind = "ExecRule"
         THEN [cacheable |-> TRUE, rule |-> callback_result.rule]
    ELSE IF callback_result.kind = "Uncacheable"
         THEN [cacheable |-> TRUE, rule |-> JustReturn]
    ELSE [cacheable |-> TRUE, rule |-> fallback_rule]

\* a rule choice that answers an adapter error with the function-start rule
rule_on_miss_function_start(module_found, callback_result) ==
    IF ~module_found THEN [cacheable |-> TRUE, rule |-> fallback_rule]
    ELSE IF callback_result.kind = "ExecRule"
         THEN [cacheable |-> TRUE, rule |-> callback_result.rule]
    ELSE IF callback_result.kind = "Uncacheable"
         THEN [cacheable |-> FALSE, rule |-> JustReturn]
    ELSE [cacheable |-> TRUE, rule |-> JustReturn]

\* a rule choice that answers a frame outside every module with JustReturn
rule_on_miss_no_module_just_return(module_found, callback_result) ==
    IF ~module_found THEN [cacheable |-> TRUE, rule |-> JustReturn]
    ELSE IF callback_result.kind = "ExecRule"
         THEN [cacheable |-> TRUE, rule |-> callback_result.rule]
    ELSE IF callback_result.kind = "Uncacheable"
         THEN [cacheable |-> FALSE, rule |-> JustReturn]
    ELSE [cacheable |-> TRUE, rule |-> fallback_rule]

\* with_cache, lines 334-356: the rule to cache and execute after a Miss, or
\* cacheable = FALSE when the callback's return address is returned directly
rule_on_miss(module_found, callback_result) ==
    IF ~module_found THEN [cacheable |-> TRUE, rule |-> fallback_rule]
    ELSE IF callback_result.kind = "ExecRule"
         THEN [cacheable |-> TRUE, rule |-> callback_result.rule]
    ELSE IF callback_result.kind = "Uncacheable"
         THEN [cacheable |-> FALSE, rule |-> JustReturn]
    ELSE [cacheable |-> TRUE, rule |-> fallback_rule]

\* a with_cache that caches a rule only after executing it with success
with_cache_caching_after_success(unwinder, address, r, rs, checks, es, st, search, adapter_result, recovered) ==
    LET lookup_address == address_for_lookup(address)
        is_first_frame == ~is_return_address(address)
        \* the callback is passed address and derives the flag again
        callback_is_first_frame == ~is_return_address(address)
        res == lookup(es, st, lookup_address, unwinder.modules_generation)
        found == find_module_for_address(unwinder.modules, lookup_address, search)
        callback_result ==
            IF found.some
            THEN unwind_frame_impl(unwinder.modules[found.val.module_index + 1],
                                   adapter_result)
            ELSE NotCalled
        choice == rule_on_miss(found.some, callback_result)
        hit_out == exec(res.rule, r, rs, checks)
        miss_out == exec(choice.rule, r, rs, checks)
    IN  IF res.hit
        THEN [result |-> hit_out.result, regs |-> hit_out.regs, entries |-> es,
              stats |-> res.stats, hit |-> TRUE, rule |-> res.rule,
              module_found |-> FALSE, callback |-> NotCalled, inserted |-> FALSE,
              is_first_frame |-> is_first_frame,
              callback_is_first_frame |-> callback_is_first_frame]
        ELSE IF ~choice.cacheable
        THEN [result |-> OkSome(callback_result.return_address), regs |-> recovered,
              entries |-> es, stats |-> res.stats, hit |-> FALSE, rule |-> JustReturn,
              module_found |-> TRUE, callback |-> callback_result, inserted |-> FALSE,
              is_first_frame |-> is_first_frame,
              callback_is_first_frame |-> callback_is_first_frame]
        ELSE [result |-> miss_out.result, regs |-> miss_out.regs,
              entries |-> IF miss_out.result.kind = "Some"
                          THEN insert(es, res.handle, choice.rule) ELSE es,
              stats |-> res.stats, hit |-> FALSE, rule |-> choice.rule,
              module_found |-> found.some, callback |-> callback_result,
              inserted |-> miss_out.result.kind = "Some",
              is_first_frame |-> is_first_frame,
              callback_is_first_frame |-> callback_is_first_frame]

\* with_cache (unwind_frame).  search is the result of the binary search of
\* find_module_for_address, adapter_result what the module's format adapter
\* answers if it is asked, recovered the registers an Uncacheable recovery
\* leaves.
with_cache(unwinder, address, r, rs, checks, es, st, search, adapter_result, recovered) ==
    LET lookup_address == address_for_lookup(address)
        is_first_frame == ~is_return_address(address)
        \* the callback is passed address and derives the flag again
        callback_is_first_frame == ~is_return_address(address)
        res == lookup(es, st, lookup_address, unwinder.modules_generation)
        found == find_module_for_address(unwinder.modules, lookup_address, search)
        callback_result ==
            IF found.some
            THEN unwind_frame_impl(unwinder.modules[found.val.module_index + 1],
                                   adapter_result)
            ELSE NotCalled
        choice == rule_on_miss(found.some, callback_result)
        hit_out == exec(res.rule, r, rs, checks)
        miss_out == exec(choice.rule, r, rs, checks)
    IN  IF res.hit
        THEN [result |-> hit_out.result, regs |-> hit_out.regs, entries |-> es,
              stats |-> res.stats, hit |-> TRUE, rule |-> res.rule,
              module_found |-> FALSE, callback |-> NotCalled, inserted |-> FALSE,
              is_first_frame |-> is_first_frame,
              callback_is_first_frame |-> callback_is_first_frame]
        ELSE IF ~choice.cacheable
        THEN [result |-> OkSome(callback_result.return_address), regs |-> recovered,
              entries |-> es, stats |-> res.stats, hit |-> FALSE, rule |-> JustReturn,
              module_found |-> TRUE, callback |-> callback_result, inserted |-> FALSE,
              is_first_frame |-> is_first_frame,
              callback_is_first_frame |-> callback_is_first_frame]
        ELSE [result |-> miss_out.result, regs |-> miss_out.regs,
              entries |-> insert(es, res.handle, choice.rule),
              stats |-> res.stats, hit |-> FALSE, rule |-> choice.rule,
              module_found |-> found.some, callback |-> callback_result,
              inserted |-> TRUE, is_first_frame |-> is_first_frame,
              callback_is_first_frame |-> callback_is_first_frame]

----------------------------------------------------------------------------
(* The compact unwind info adapter of x86-64 (x86_64/macho.rs) *)

\* OpcodeX86_64, as parsed from a function's compact unwind entry
OpcodeRecord(kind, size, saved_regs, immediate_offset, adjust, fde) ==
    [kind |-> kind, stack_size_in_bytes |-> size, saved_regs |-> saved_regs,
     immediate_offset_from_function_start |-> immediate_offset,
     stack_adjust_in_bytes |-> adjust, eh_frame_fde |-> fde]
NoSavedRegs == <<"None", "None", "None", "None", "None", "None">>
OpcodeNull == OpcodeRecord("Null", 0, NoSavedRegs, 0, 0, 0)
FramelessImmediate(stack_size_in_bytes, saved_regs) ==
    OpcodeRecord("FramelessImmediate", stack_size_in_bytes, saved_regs, 0, 0, 0)
FramelessIndirect(immediate_offset_from_function_start, stack_adjust_in_bytes, saved_regs) ==
    OpcodeRecord("FramelessIndirect", 0, saved_regs,
                 immediate_offset_from_function_start, stack_adjust_in_bytes, 0)
OpcodeDwarf(eh_frame_fde) == OpcodeRecord("Dwarf", 0, NoSavedRegs, 0, 0, eh_frame_fde)
FrameBased == OpcodeRecord("FrameBased", 0, NoSavedRegs, 0, 0, 0)
UnrecognizedKind == OpcodeRecord("UnrecognizedKind", 0, NoSavedRegs, 0, 0, 0)
InvalidFrameless == OpcodeRecord("InvalidFrameless", 0, NoSavedRegs, 0, 0, 0)

\* Result<CuiUnwindResult<UnwindRuleX86_64>, CompactUnwindInfoUnwinderError>
CuiExecRule(rule) == [kind |-> "ExecRule", rule |-> rule, fde |-> 0, err |-> ""]
NeedDwarf(fde) == [kind |-> "NeedDwarf", rule |-> JustReturn, fde |-> fde, err |-> ""]
CuiErr(e) == [kind |-> "Err", rule |-> JustReturn, fde |-> 0, err |-> e]

\* slice::starts_with, and slice::get of the range first .. first + 4
starts_with(bytes, prefix) ==
    /\ Len(bytes) >= Len(prefix)
    /\ SubSeq(bytes, 1, Len(prefix)) = prefix
get4(bytes, first) ==
    IF first + 4 <= Len(bytes)
    THEN Some(SubSeq(bytes, first + 1, first + 4))
    ELSE None

\* a u32 is kept at its full width as two 16-bit halves
u32_from_le_bytes(b) == [lo |-> b[1] + 256 * b[2], hi |-> b[3] + 256 * b[4]]
\* u32::checked_add of a value widened from a narrower type
u32_checked_add(x, y) ==
    LET lo == x.lo + y
        hi == x.hi + lo \div 65536
    IN  IF hi > 65535 THEN None ELSE Some([lo |-> lo % 65536, hi |-> hi])
\* x / 8 for a u32, and x as i32 for an x below 2^31
u32_div_8(x) == x.hi * 8192 + x.lo \div 8
u32_as_i32(x) == x.hi * 65536 + x.lo
u16_try_from(v) == IF v < 0 \/ v > U16Max THEN None ELSE Some(v)
i16_try_from(v) == IF v < I16Min \/ v > I16Max THEN None ELSE Some(v)
\* i32 division, which truncates toward zero
i32_div(a, b) == IF a >= 0 THEN a \div b ELSE 0 - ((0 - a) \div b)

IsSomeReg(r) == r # "None"
Rev(s) == [i \in 1 .. Len(s) |-> s[Len(s) + 1 - i]]
\* Iterator::position: the 0-based index of the first Rbp
position_of_rbp(s) ==
    IF \E i \in 1 .. Len(s) : s[i] = "Rbp"
    THEN Some((CHOOSE i \in 1 .. Len(s) :
                  /\ s[i] = "Rbp"
                  /\ \A j \in 1 .. i - 1 : s[j] # "Rbp") - 1)
    ELSE None

\* the position of Rbp among the saved registers in their stored order
bp_position_from_inside(saved_regs) ==
    position_of_rbp(SelectSeq(saved_regs, IsSomeReg))

\* saved_regs.iter().rev().flatten().position(|r| *r == Rbp)
bp_positon_from_outside(saved_regs) ==
    position_of_rbp(SelectSeq(Rev(saved_regs), IsSomeReg))

\* the FramelessImmediate arm; stack_size_in_bytes is a u16
translate_FramelessImmediate(opcode) ==
    IF opcode.stack_size_in_bytes = 8 THEN CuiExecRule(JustReturn)
    ELSE LET pos == bp_positon_from_outside(opcode.saved_regs)
             bp_offset_from_sp == opcode.stack_size_in_bytes - 2 * 8 - pos.val * 8
             bp_storage_offset_from_sp_by_8 ==
                 i16_try_from(i32_div(bp_offset_from_sp, 8))
         IN  IF pos.some
             THEN IF ~bp_storage_offset_from_sp_by_8.some
                  THEN CuiErr("BpOffsetDoesNotFit")
                  ELSE CuiExecRule(OffsetSpAndRestoreBp(
                           opcode.stack_size_in_bytes \div 8,
                           bp_storage_offset_from_sp_by_8.val))
             ELSE CuiExecRule(OffsetSp(opcode.stack_size_in_bytes \div 8))

\* the FramelessIndirect arm
translate_FramelessIndirect(opcode, function_bytes) ==
    IF ~function_bytes.some
    THEN CuiErr("NoTextBytesToLookUpIndirectStackOffset")
    ELSE
    LET sub_immediate_bytes ==
            get4(function_bytes.val, opcode.immediate_offset_from_function_start)
        sub_immediate == u32_from_le_bytes(sub_immediate_bytes.val)
        stack_size_in_bytes ==
            u32_checked_add(sub_immediate, opcode.stack_adjust_in_bytes)
        sp_offset_by_8 == u16_try_from(u32_div_8(stack_size_in_bytes.val))
        pos == bp_positon_from_outside(opcode.saved_regs)
        bp_offset_from_sp == u32_as_i32(stack_size_in_bytes.val) - 2 * 8 - pos.val * 8
        bp_storage_offset_from_sp_by_8 ==
            i16_try_from(i32_div(bp_offset_from_sp, 8))
    IN  IF ~sub_immediate_bytes.some THEN CuiErr("IndirectStackOffsetOutOfBounds")
        ELSE IF ~stack_size_in_bytes.some THEN CuiErr("StackAdjustOverflow")
        ELSE IF ~sp_offset_by_8.some THEN CuiErr("StackSizeDoesNotFit")
        ELSE IF pos.some
             THEN IF ~bp_storage_offset_from_sp_by_8.some
                  THEN CuiErr("BpOffsetDoesNotFit")
                  ELSE CuiExecRule(OffsetSpAndRestoreBp(
                           sp_offset_by_8.val, bp_storage_offset_from_sp_by_8.val))
             ELSE CuiExecRule(OffsetSp(sp_offset_by_8.val))

\* the match on the opcode, reached when the pc is taken to be in a function
\* body
translate_opcode(opcode, function_bytes) ==
    CASE opcode.kind = "Null" -> CuiErr("FunctionHasNoInfo")
      [] opcode.kind = "FramelessImmediate" -> translate_FramelessImmediate(opcode)
      [] opcode.kind = "FramelessIndirect" ->
            translate_FramelessIndirect(opcode, function_bytes)
      [] opcode.kind = "Dwarf" -> NeedDwarf(opcode.eh_frame_fde)
      [] opcode.kind = "FrameBased" -> CuiExecRule(UseFramePointer)
      [] opcode.kind = "UnrecognizedKind" -> CuiErr("BadOpcodeKind")
      [] opcode.kind = "InvalidFrameless" -> CuiErr("InvalidFrameless")

\* the bytes of push rbp; mov rbp, rsp
FramePointerPrologue == <<85, 72, 137, 229>>

\* an adapter that looks for the frame pointer prologue on every frame
CompactUnwindInfoUnwinding_unwind_frame_prologue_on_any_frame(opcode, is_first_frame, analysis, function_bytes) ==
    IF is_first_frame /\ function_bytes.some /\ analysis.some
    THEN CuiExecRule(analysis.val)
    ELSE IF /\ function_bytes.some
            /\ opcode.kind = "Null"
            /\ starts_with(function_bytes.val, FramePointerPrologue)
    THEN CuiExecRule(UseFramePointer)
    ELSE IF is_first_frame /\ opcode.kind = "Null"
    THEN CuiExecRule(JustReturn)
    ELSE translate_opcode(opcode, function_bytes)

\* an adapter without the function-start heuristic for uncovered functions
CompactUnwindInfoUnwinding_unwind_frame_no_function_start(opcode, is_first_frame, analysis, function_bytes) ==
    IF is_first_frame /\ function_bytes.some /\ analysis.some
    THEN CuiExecRule(analysis.val)
    ELSE IF /\ is_first_frame /\ function_bytes.some
            /\ opcode.kind = "Null"
            /\ starts_with(function_bytes.val, FramePointerPrologue)
    THEN CuiExecRule(UseFramePointer)
    ELSE translate_opcode(opcode, function_bytes)

\* <ArchX86_64 as CompactUnwindInfoUnwinding>::unwind_frame.  analysis is what
\* rule_from_instruction_analysis answers for the function's bytes and the
\* offset of the address, if it is asked: Some(rule) or None
CompactUnwindInfoUnwinding_unwind_frame(opcode, is_first_frame, analysis, function_bytes) ==
    IF is_first_frame /\ function_bytes.some /\ analysis.some
    THEN CuiExecRule(analysis.val)
    ELSE IF /\ is_first_frame /\ function_bytes.some
            /\ opcode.kind = "Null"
            /\ starts_with(function_bytes.val, FramePointerPrologue)
    THEN CuiExecRule(UseFramePointer)
    ELSE IF is_first_frame /\ opcode.kind = "Null"
    THEN CuiExecRule(JustReturn)
    ELSE translate_opcode(opcode, function_bytes)

\* unwind_frame_impl for CompactUnwindInfoAndEhFrame: the adapter's result as
\* the callback's result.  dwarf_result is what the DWARF adapter answers for
\* the FDE, if the module has __eh_frame data and the adapter is asked.
cui_callback(cui_result, eh_frame, dwarf_result) ==
    IF cui_result.kind = "Err" THEN UnwinderError("CompactUnwindInfo")
    ELSE IF cui_result.kind = "ExecRule" THEN ExecRuleResult(cui_result.rule)
    ELSE IF ~eh_frame THEN UnwinderError("NoDwarfData")
    ELSE dwarf_result

----------------------------------------------------------------------------
(* UnwindIterator (unwinder.rs) *)

\* UnwindIteratorState
Initial(pc) == [kind |-> "Initial", address |-> InstructionPointer(pc)]
Unwinding(address) == [kind |-> "Unwinding", address |-> address]
Done == [kind |-> "Done", address |-> InstructionPointer(0)]

\* Result<Option<FrameAddress>, Error> of next()
FrameSome(address) == [kind |-> "Some", err |-> "", val |-> 0, frame |-> address]
FrameNone == [kind |-> "None", err |-> "", val |-> 0, frame |-> InstructionPointer(0)]
FrameErr(e, a) == [kind |-> "Err", err |-> e, val |-> a, frame |-> InstructionPointer(0)]
FramePanic == [kind |-> "Panic", err |-> "", val |-> 0, frame |-> InstructionPointer(0)]

\* a conversion that accepts every return address
from_return_address_unchecked(return_address) == Some(ReturnAddress(return_address))

\* FrameAddress::from_return_address: no frame address for a null return address
from_return_address(return_address) ==
    IF return_address = 0 THEN None ELSE Some(ReturnAddress(return_address))

\* what a next() call did: the state it leaves, its result, the registers and
\* the cache it leaves, and the dispatcher call it made if it made one
NoDispatch == [made |-> FALSE, result |-> OkNone, hit |-> FALSE, rule |-> JustReturn,
               module_found |-> FALSE, callback |-> NotCalled, inserted |-> FALSE]
Dispatch(w) == [made |-> TRUE, result |-> w.result, hit |-> w.hit, rule |-> w.rule,
                module_found |-> w.module_found, callback |-> w.callback,
                inserted |-> w.inserted]
NextOutcome(st8, result, r, es, st, dispatch) ==
    [state |-> st8, result |-> result, regs |-> r, entries |-> es, stats |-> st,
     dispatch |-> dispatch]

\* a first call that yields the frame and remains in Initial
next_Initial_staying(st8, r, es, st) ==
    NextOutcome(st8, FrameSome(st8.address), r, es, st, NoDispatch)

\* next(), lines 154-157: the Initial(pc) arm
next_Initial(st8, r, es, st) ==
    NextOutcome(Unwinding(st8.address), FrameSome(st8.address), r, es, st, NoDispatch)

\* a Done arm that starts over
next_Done_restarting(st8, r, es, st) ==
    NextOutcome(Initial(0), FrameNone, r, es, st, NoDispatch)

\* next(), line 162: the Done arm
next_Done(st8, r, es, st) ==
    NextOutcome(st8, FrameNone, r, es, st, NoDispatch)

\* next(), lines 158-175: the Unwinding(address) arm; w is what unwind_frame did
next_Unwinding(st8, w) ==
    LET converted == from_return_address(w.result.val)
    IN  IF w.result.kind = "Panic"
        THEN NextOutcome(st8, FramePanic, w.regs, w.entries, w.stats, Dispatch(w))
        ELSE IF w.result.kind = "Err"
        THEN NextOutcome(st8, FrameErr(w.result.err, w.result.val),
                         w.regs, w.entries, w.stats, Dispatch(w))
        ELSE IF w.result.kind = "None"
        THEN NextOutcome(Done, FrameNone, w.regs, w.entries, w.stats, Dispatch(w))
        ELSE IF ~converted.some
        THEN NextOutcome(st8, FrameErr("ReturnAddressIsNull", 0),
                         w.regs, w.entries, w.stats, Dispatch(w))
        ELSE NextOutcome(Unwinding(converted.val), FrameSome(converted.val),
                         w.regs, w.entries, w.stats, Dispatch(w))

\* UnwindIterator::next
next(st8, unwinder, r, rs, checks, es, st, search, adapter_result, recovered) ==
    IF st8.kind = "Initial" THEN next_Initial(st8, r, es, st)
    ELSE IF st8.kind = "Done" THEN next_Done(st8, r, es, st)
    ELSE next_Unwinding(st8, with_cache(unwinder, st8.address, r, rs, checks,
                                        es, st, search, adapter_result, recovered))

----------------------------------------------------------------------------
(* Initial values of the variables a specification leaves alone *)

UnwinderIds == {1, 2}

NoFound == [populated |-> FALSE, same_address |-> FALSE, owner |-> 0,
            alloc |-> 0, inserted_at |-> 0, first_frame |-> FALSE]

NoFind == [some |-> FALSE, val |-> [module_index |-> 0, relative_address |-> 0]]

NoCall == [op |-> "none", unwinder |-> 0, address |-> InstructionPointer(0),
           lookup_address |-> 0, regs_before |-> [ip |-> 0, sp |-> 0, bp |-> 0],
           hit |-> FALSE, rule |-> JustReturn, module_found |-> FALSE,
           callback |-> NotCalled, inserted |-> FALSE, result |-> OkNone,
           found |-> NoFound, find |-> NoFind, max_address |-> 0,
           is_first_frame |-> FALSE, callback_is_first_frame |-> FALSE]

NoExec == [rule |-> JustReturn, before |-> [ip |-> 0, sp |-> 0, bp |-> 0],
           called |-> FALSE, result |-> OkNone, reads |-> <<>>]

IdleExec ==
    /\ regs = [ip |-> 1049600, sp |-> 16, bp |-> 32]
    /\ read_stack = ArrayStack
    /\ overflow_checks = TRUE
    /\ exec_last = NoExec
    /\ exec_steps = 0

IdleCacheCaller ==
    /\ handles = {}
    /\ cache_hist = <<>>

IdleUnwinders ==
    /\ GLOBAL_MODULES_GENERATION = 0
    /\ unwinders = [u \in UnwinderIds |-> NotCreated]
    /\ last = NoCall
    /\ bumps = 0
    /\ unwinder_ghost = [u \in UnwinderIds |-> [alloc |-> 0]]
    /\ entry_ghost = EmptyEntries

NoNext == [called |-> FALSE, state_before |-> Done,
           regs_before |-> [ip |-> 0, sp |-> 0, bp |-> 0],
           entries_before |-> EmptyEntries, stats_before |-> NewStats,
           result |-> FrameNone, dispatch |-> NoDispatch]

IdleIterator ==
    /\ state = Done
    /\ adapter = "none"
    /\ iter_last = NoNext
    /\ next_calls = 0

NoModuleNew == [called |-> FALSE, section_info |-> {}, eh_frame_index |-> "Ok",
                debug_frame_index |-> "Ok", module |-> Module(0, 0, 0, "None")]

NoCui == [called |-> FALSE, opcode |-> OpcodeNull, is_first_frame |-> FALSE,
          analysis |-> None, function_bytes |-> None,
          result |-> CuiErr(""), callback |-> NotCalled, rule |-> JustReturn]

IdleFormat ==
    /\ module_last = NoModuleNew
    /\ cui_last = NoCui

\* a thread that is not inside a call
NoThreadCall == [pc |-> "idle", op |-> "none", value |-> 0, index |-> 0,
                 module |-> Module(0, 0, 0, "None"),
                 search |-> [found |-> FALSE, index |-> 0]]

IdleThreads == threads = [t \in UnwinderIds |-> NoThreadCall]

----------------------------------------------------------------------------
(* SpecExec: exec applied, up to MaxExecSteps times in a row, to register  *)
(* sets, rules and callbacks drawn from the inputs below.                  *)

TestRegs == [ip |-> 1049600, sp |-> 16, bp |-> 32]
OverflowRegs == [ip |-> 1049600, sp |-> (U64Max \div 8) * 8, bp |-> U64Max]

SpInputs == {0, 8, 16, (U64Max \div 8) * 8, U64Max}
BpInputs == {0, 16, 32, U64Max - 16, U64Max}
RegsInputs == [ip : {1049600}, sp : SpInputs, bp : BpInputs]

RuleInputs ==
    {JustReturn, UseFramePointer}
    \cup {OffsetSp(n) : n \in {0, 1, U16Max}}
    \cup {OffsetSpAndRestoreBp(n, k) : n \in {0, 1, U16Max}, k \in {I16Min, -1, 2, I16Max}}

ReadInputs == {None, Some(0), Some(64), Some(U64Max)}
ReadStackInputs ==
    {ArrayStack} \cup {ScriptStack(r1, r2) : r1 \in ReadInputs, r2 \in ReadInputs}

InitExec ==
    /\ regs \in RegsInputs
    /\ read_stack \in ReadStackInputs
    /\ overflow_checks \in BOOLEAN
    /\ exec_last = NoExec
    /\ exec_steps = 0
    /\ entries = EmptyEntries
    /\ stats = NewStats
    /\ IdleCacheCaller
    /\ IdleUnwinders
    /\ IdleIterator
    /\ IdleFormat
    /\ IdleThreads

ExecRule(rule) ==
    /\ exec_steps < MaxExecSteps
    /\ exec_last.result.kind # "Panic"
    /\ \E out \in {exec(rule, regs, read_stack, overflow_checks)} :
           /\ regs' = out.regs
           /\ exec_last' = [rule |-> rule, before |-> regs, called |-> TRUE,
                            result |-> out.result, reads |-> out.reads]
    /\ exec_steps' = exec_steps + 1
    /\ UNCHANGED <<read_stack, overflow_checks, cache_vars, unwinder_vars>>
    /\ UNCHANGED iter_vars
    /\ UNCHANGED format_vars
    /\ UNCHANGED threads

NextExec == \E rule \in RuleInputs : ExecRule(rule)

SpecExec == InitExec /\ [][NextExec]_vars

----------------------------------------------------------------------------
(* SpecCache: lookup and insert called directly on one cache.  A Miss      *)
(* hands its caller a CacheHandle, which the caller keeps or drops; insert *)
(* consumes a handle the caller kept.                                      *)

CacheAddressInputs == {1018, 1527, 500}
CacheGenerationInputs == {1, 2}
CacheRuleInputs == {JustReturn, UseFramePointer}

LookupCall(address, modules_generation, res) ==
    [op |-> "lookup", address |-> address, modules_generation |-> modules_generation,
     slot |-> slot_of(address), hit |-> res.hit, rule |-> res.rule,
     handle |-> res.handle, before |-> entries,
     stats_before |-> stats, stats_after |-> res.stats]
InsertCall(handle, rule) ==
    [op |-> "insert", address |-> handle.address,
     modules_generation |-> handle.modules_generation,
     slot |-> handle.slot, hit |-> FALSE, rule |-> rule,
     handle |-> handle, before |-> entries,
     stats_before |-> stats, stats_after |-> stats]

InitCache ==
    /\ entries = EmptyEntries
    /\ stats = NewStats
    /\ handles = {}
    /\ cache_hist = <<>>
    /\ IdleExec
    /\ IdleUnwinders
    /\ IdleIterator
    /\ IdleFormat
    /\ IdleThreads

CacheLookup(address, modules_generation, keep) ==
    /\ Len(cache_hist) < MaxCacheOps
    /\ \E res \in {lookup(entries, stats, address, modules_generation)} :
           /\ stats' = res.stats
           /\ handles' = IF ~res.hit /\ keep /\ Cardinality(handles) < MaxHandles
                         THEN handles \cup {res.handle}
                         ELSE handles
           /\ cache_hist' = Append(cache_hist,
                                   LookupCall(address, modules_generation, res))
    /\ UNCHANGED <<entries, exec_vars, unwinder_vars>>
    /\ UNCHANGED iter_vars
    /\ UNCHANGED format_vars
    /\ UNCHANGED threads

CacheInsert(handle, rule) ==
    /\ Len(cache_hist) < MaxCacheOps
    /\ handle \in handles
    /\ entries' = insert(entries, handle, rule)
    /\ handles' = handles \ {handle}
    /\ cache_hist' = Append(cache_hist, InsertCall(handle, rule))
    /\ UNCHANGED <<stats, exec_vars, unwinder_vars>>
    /\ UNCHANGED iter_vars
    /\ UNCHANGED format_vars
    /\ UNCHANGED threads

NextCache ==
    \/ \E address \in CacheAddressInputs, g \in CacheGenerationInputs, keep \in BOOLEAN :
          CacheLookup(address, g, keep)
    \/ \E handle \in handles, rule \in CacheRuleInputs : CacheInsert(handle, rule)

SpecCache == InitCache /\ [][NextCache]_vars

\* SpecCacheKept: the same calls by a caller that keeps every handle it is
\* given for as long as it holds fewer than MaxHandles
NextCacheKept ==
    \/ \E address \in CacheAddressInputs, g \in CacheGenerationInputs :
          CacheLookup(address, g, TRUE)
    \/ \E handle \in handles, rule \in CacheRuleInputs : CacheInsert(handle, rule)

SpecCacheKept == InitCache /\ [][NextCacheKept]_vars

----------------------------------------------------------------------------
(* Spec: unwinder instances that share one cache.  Each instance is        *)
(* created by new(), changed by add_module and remove_module and asked to  *)
(* unwind frames; the callers' modules, frames, registers and the answers  *)
(* of the format adapters are drawn from the inputs below.                 *)

ModuleInputs ==
    {Module(1000, 1019, 1000, "CompactUnwindInfoAndEhFrame"),
     Module(1500, 2000, 1520, "None")}
RemoveInputs == {1000, 1500, 7}
\* the frames unwound, each with the registers its caller passes
FrameInputs ==
    {[address |-> InstructionPointer(1018), regs |-> TestRegs],
     [address |-> InstructionPointer(1018), regs |-> OverflowRegs],
     [address |-> ReturnAddress(1019), regs |-> TestRegs],
     [address |-> InstructionPointer(1527), regs |-> TestRegs]}
AdapterInputs ==
    {ExecRuleResult(JustReturn), Uncacheable(1049344), UnwinderError("CompactUnwindInfo")}
RecoveredRegs == [ip |-> 1049344, sp |-> 24, bp |-> 32]

\* CacheStats::hits
hits(st) == st.hit_count

Total(st) ==
    st.hit_count + st.miss_empty_slot_count + st.miss_wrong_modules_count
        + st.miss_wrong_address_count

Call(op, u) == [NoCall EXCEPT !.op = op, !.unwinder = u]

Init ==
    /\ entries = EmptyEntries
    /\ stats = NewStats
    /\ IdleCacheCaller
    /\ IdleExec
    /\ IdleUnwinders
    /\ IdleIterator
    /\ IdleFormat
    /\ IdleThreads

\* instances are numbered in the order of their creation
New(u) ==
    /\ ~unwinders[u].created
    /\ \A v \in UnwinderIds : v < u => unwinders[v].created
    /\ bumps < MaxBumps
    /\ LET n == new(GLOBAL_MODULES_GENERATION)
       IN  /\ unwinders' = [unwinders EXCEPT ![u] = n.unwinder]
           /\ GLOBAL_MODULES_GENERATION' = n.counter
    /\ bumps' = bumps + 1
    /\ unwinder_ghost' = [unwinder_ghost EXCEPT ![u] = [alloc |-> bumps]]
    /\ last' = Call("new", u)
    /\ UNCHANGED <<entries, stats, entry_ghost, handles, cache_hist, exec_vars>>
    /\ UNCHANGED iter_vars
    /\ UNCHANGED format_vars
    /\ UNCHANGED threads

AddModule(u, module) ==
    /\ unwinders[u].created
    /\ bumps < MaxBumps
    /\ Len(unwinders[u].modules) < MaxModules
    /\ \E search \in binary_search_by_key(unwinders[u].modules, module.avma_start) :
          \E a \in {add_module(unwinders[u], module, search, GLOBAL_MODULES_GENERATION)} :
              /\ unwinders' = [unwinders EXCEPT ![u] = a.unwinder]
              /\ GLOBAL_MODULES_GENERATION' = a.counter
    /\ bumps' = bumps + 1
    /\ unwinder_ghost' = [unwinder_ghost EXCEPT ![u] = [alloc |-> bumps]]
    /\ last' = Call("add_module", u)
    /\ UNCHANGED <<entries, stats, entry_ghost, handles, cache_hist, exec_vars>>
    /\ UNCHANGED iter_vars
    /\ UNCHANGED format_vars
    /\ UNCHANGED threads

RemoveModule(u, start) ==
    /\ unwinders[u].created
    /\ \E search \in binary_search_by_key(unwinders[u].modules, start) :
          \E rm \in {remove_module(unwinders[u], search, GLOBAL_MODULES_GENERATION)} :
              /\ search.found => bumps < MaxBumps
              /\ unwinders' = [unwinders EXCEPT ![u] = rm.unwinder]
              /\ GLOBAL_MODULES_GENERATION' = rm.counter
              /\ bumps' = IF search.found THEN bumps + 1 ELSE bumps
              /\ unwinder_ghost' =
                    IF search.found
                    THEN [unwinder_ghost EXCEPT ![u] = [alloc |-> bumps]]
                    ELSE unwinder_ghost
              /\ last' = [Call("remove_module", u) EXCEPT !.module_found = search.found]
    /\ UNCHANGED <<entries, stats, entry_ghost, handles, cache_hist, exec_vars>>
    /\ UNCHANGED iter_vars
    /\ UNCHANGED format_vars
    /\ UNCHANGED threads

UnwindFrame(u, address, r, adapter_result) ==
    /\ unwinders[u].created
    /\ Total(stats) < MaxLookups
    /\ LET lookup_address == address_for_lookup(address)
           slot == slot_of(lookup_address)
       IN  \E search \in binary_search_by_key(unwinders[u].modules, lookup_address) :
             \E w \in {with_cache(unwinders[u], address, r, read_stack, overflow_checks,
                                  entries, stats, search, adapter_result, RecoveredRegs)} :
                 /\ entries' = w.entries
                 /\ stats' = w.stats
                 /\ regs' = w.regs
                 /\ entry_ghost' =
                       IF w.inserted
                       THEN [s \in DOMAIN entry_ghost \cup {slot} |->
                               IF s = slot
                               THEN [owner |-> u,
                                     alloc |-> unwinder_ghost[u].alloc,
                                     inserted_at |-> bumps,
                                     first_frame |-> ~is_return_address(address)]
                               ELSE entry_ghost[s]]
                       ELSE entry_ghost
                 /\ last' = [op |-> "unwind_frame", unwinder |-> u, address |-> address,
                             lookup_address |-> lookup_address, regs_before |-> r,
                             hit |-> w.hit, rule |-> w.rule,
                             module_found |-> w.module_found, callback |-> w.callback,
                             inserted |-> w.inserted, result |-> w.result,
                             found |-> IF slot \in DOMAIN entries
                                       THEN [populated |-> TRUE,
                                             same_address |->
                                                 entries[slot].address = lookup_address,
                                             owner |-> entry_ghost[slot].owner,
                                             alloc |-> entry_ghost[slot].alloc,
                                             inserted_at |-> entry_ghost[slot].inserted_at,
                                             first_frame |-> entry_ghost[slot].first_frame]
                                       ELSE NoFound,
                             find |-> NoFind, max_address |-> 0,
                             is_first_frame |-> w.is_first_frame,
                             callback_is_first_frame |-> w.callback_is_first_frame]
    /\ UNCHANGED <<GLOBAL_MODULES_GENERATION, unwinders, bumps, unwinder_ghost,
                   read_stack, overflow_checks, exec_last, exec_steps,
                   handles, cache_hist>>
    /\ UNCHANGED iter_vars
    /\ UNCHANGED format_vars
    /\ UNCHANGED threads

Next ==
    \/ \E u \in UnwinderIds : New(u)
    \/ \E u \in UnwinderIds, module \in ModuleInputs : AddModule(u, module)
    \/ \E u \in UnwinderIds, start \in RemoveInputs : RemoveModule(u, start)
    \/ \E u \in UnwinderIds, frame \in FrameInputs, adapter_result \in AdapterInputs :
          UnwindFrame(u, frame.address, frame.regs, adapter_result)

Spec == Init /\ [][Next]_vars

----------------------------------------------------------------------------
(* SpecRegistry: the module registries of the unwinders: add_module,       *)
(* remove_module and find_module_for_address on modules that include an    *)
(* empty range, a base address inside the range and a range wider than the *)
(* relative addresses.                                                      *)

RegistryModuleInputs ==
    {Module(1000, 20000, 1000, "CompactUnwindInfoAndEhFrame"),
     Module(1500, 2000, 1520, "None"),
     Module(500, 500, 500, "None"),
     Module(500, 900, 200, "None")}
RegistryRemoveInputs == {500, 1000, 1500, 7}
RegistryAddressInputs ==
    {499, 500, 899, 900, 1000, 1018, 1500, 1519, 1520, 1999, 2000,
     1000 + U32Max, 1001 + U32Max, 19999, 20000}

InitRegistry ==
    /\ unwinders = [u \in UnwinderIds |-> IF u = 1 THEN new(0).unwinder ELSE NotCreated]
    /\ GLOBAL_MODULES_GENERATION = new(0).counter
    /\ bumps = 1
    /\ unwinder_ghost = [u \in UnwinderIds |-> [alloc |-> 0]]
    /\ last = NoCall
    /\ entry_ghost = EmptyEntries
    /\ entries = EmptyEntries
    /\ stats = NewStats
    /\ IdleCacheCaller
    /\ IdleExec
    /\ IdleIterator
    /\ IdleFormat
    /\ IdleThreads

FindModuleForAddress(u, address) ==
    /\ unwinders[u].created
    /\ \E search \in binary_search_by_key(unwinders[u].modules, address) :
          last' = [Call("find_module_for_address", u) EXCEPT
                      !.lookup_address = address,
                      !.find = find_module_for_address(unwinders[u].modules,
                                                       address, search),
                      !.module_found =
                          find_module_for_address(unwinders[u].modules,
                                                  address, search).some]
    /\ UNCHANGED <<GLOBAL_MODULES_GENERATION, unwinders, bumps, unwinder_ghost,
                   entry_ghost, cache_vars, exec_vars, iter_vars, format_vars, threads>>

MaxKnownCodeAddress(u) ==
    /\ unwinders[u].created
    /\ last' = [Call("max_known_code_address", u) EXCEPT
                   !.max_address = max_known_code_address(unwinders[u].modules)]
    /\ UNCHANGED <<GLOBAL_MODULES_GENERATION, unwinders, bumps, unwinder_ghost,
                   entry_ghost, cache_vars, exec_vars, iter_vars, format_vars, threads>>

NextRegistry ==
    \/ \E u \in UnwinderIds : New(u)
    \/ \E u \in UnwinderIds, module \in RegistryModuleInputs : AddModule(u, module)
    \/ \E u \in UnwinderIds, start \in RegistryRemoveInputs : RemoveModule(u, start)
    \/ \E u \in UnwinderIds, address \in RegistryAddressInputs :
          FindModuleForAddress(u, address)
    \/ \E u \in UnwinderIds : MaxKnownCodeAddress(u)

SpecRegistry == InitRegistry /\ [][NextRegistry]_vars

----------------------------------------------------------------------------
(* SpecIter: one UnwindIterator over unwinder 1, whose registry holds no   *)
(* module or one module; next() is called up to MaxNextCalls times.        *)

IterPc == 1049600
IterModule == Module(1048576, 1050000, 1048576, "CompactUnwindInfoAndEhFrame")
IterModulesInputs == {<<>>, <<IterModule>>}
IterRegsInputs == [ip : {IterPc}, sp : {16, 104, 112}, bp : {0, 32}]
AdapterNames == {"OffsetSp", "JustReturn", "Error", "Recover"}

\* What the module's format adapter answers for a frame, and the registers it
\* leaves.  "Recover" is a DWARF CFI recovery executed directly, for the CFI
\* of a function entry (CFA = sp + 8, return address at CFA - 8).
Adapter(name, r, rs) ==
    LET cfa == checked_add(r.sp, 8)
        ra == ReadStack(rs, r.sp, 0)
    IN  IF name = "OffsetSp" THEN [result |-> ExecRuleResult(OffsetSp(1)), regs |-> r]
        ELSE IF name = "JustReturn"
        THEN [result |-> ExecRuleResult(JustReturn), regs |-> r]
        ELSE IF name = "Error"
        THEN [result |-> UnwinderError("CompactUnwindInfo"), regs |-> r]
        ELSE IF ~cfa.some \/ ~ra.some
        THEN [result |-> UnwinderError("Dwarf"), regs |-> r]
        ELSE [result |-> Uncacheable(ra.val),
              regs |-> [ip |-> ra.val, sp |-> cfa.val, bp |-> r.bp]]

\* unwinder 1 after new() and, for a non-empty registry, add_module
IterUnwinder(modules) ==
    LET n == new(0)
    IN  IF modules = <<>> THEN n
        ELSE add_module(n.unwinder, modules[1], [found |-> FALSE, index |-> 0],
                        n.counter)

InitIter ==
    /\ \E modules \in IterModulesInputs :
          /\ unwinders = [u \in UnwinderIds |->
                            IF u = 1 THEN IterUnwinder(modules).unwinder ELSE NotCreated]
          /\ GLOBAL_MODULES_GENERATION = IterUnwinder(modules).counter
          /\ bumps = 1 + Len(modules)
          /\ unwinder_ghost = [u \in UnwinderIds |->
                                  [alloc |-> IF u = 1 THEN Len(modules) ELSE 0]]
    /\ last = NoCall
    /\ entry_ghost = EmptyEntries
    /\ entries = EmptyEntries
    /\ stats = NewStats
    /\ IdleCacheCaller
    /\ regs \in IterRegsInputs
    /\ read_stack = ArrayStack
    /\ overflow_checks \in BOOLEAN
    /\ exec_last = NoExec
    /\ exec_steps = 0
    /\ state = Initial(IterPc)
    /\ adapter \in AdapterNames
    /\ iter_last = NoNext
    /\ next_calls = 0
    /\ IdleFormat
    /\ IdleThreads

IterNext ==
    /\ next_calls < MaxNextCalls
    /\ iter_last.result.kind # "Panic"
    /\ \E search \in binary_search_by_key(unwinders[1].modules,
                                          address_for_lookup(state.address)) :
         \E a \in {Adapter(adapter, regs, read_stack)} :
           \E n \in {next(state, unwinders[1], regs, read_stack, overflow_checks,
                          entries, stats, search, a.result, a.regs)} :
              /\ state' = n.state
              /\ regs' = n.regs
              /\ entries' = n.entries
              /\ stats' = n.stats
              /\ iter_last' = [called |-> TRUE, state_before |-> state,
                               regs_before |-> regs, entries_before |-> entries,
                               stats_before |-> stats, result |-> n.result,
                               dispatch |-> n.dispatch]
    /\ next_calls' = next_calls + 1
    /\ UNCHANGED <<read_stack, overflow_checks, exec_last, exec_steps, handles,
                   cache_hist, unwinder_vars, adapter>>
    /\ UNCHANGED format_vars
    /\ UNCHANGED threads

NextIter == IterNext

SpecIter == InitIter /\ [][NextIter]_vars

----------------------------------------------------------------------------
(* SpecWalk: a frame-pointer walk.  The iterator runs over unwinder 1,     *)
(* whose registry holds no module or one module whose adapter fails, so    *)
(* that every frame is unwound with the fallback rule; the stack buffer    *)
(* holds two frame records (saved bp, return address) of any contents, and *)
(* the caller calls next() again as long as it may.                        *)

\* the registers the walk starts from: bp null, inside the buffer, or near
\* the end of the address space
WalkRegsInputs == [ip : {IterPc}, sp : {0, 40}, bp : {0, 16, 32, U64Max - 8}]
\* the stack buffer: the frame records at addresses 16 and 32
WalkStackInputs ==
    {<<0, 0, bp1, ra1, bp2, ra2>> :
        bp1 \in {0, 16, 32}, ra1 \in {0, IterPc},
        bp2 \in {0, 16, 32}, ra2 \in {0, IterPc}}

InitWalk ==
    /\ \E modules \in IterModulesInputs :
          /\ unwinders = [u \in UnwinderIds |->
                            IF u = 1 THEN IterUnwinder(modules).unwinder ELSE NotCreated]
          /\ GLOBAL_MODULES_GENERATION = IterUnwinder(modules).counter
          /\ bumps = 1 + Len(modules)
          /\ unwinder_ghost = [u \in UnwinderIds |->
                                  [alloc |-> IF u = 1 THEN Len(modules) ELSE 0]]
    /\ last = NoCall
    /\ entry_ghost = EmptyEntries
    /\ entries = EmptyEntries
    /\ stats = NewStats
    /\ IdleCacheCaller
    /\ regs \in WalkRegsInputs
    /\ read_stack \in {MemoryStack(words) : words \in WalkStackInputs}
    /\ overflow_checks \in BOOLEAN
    /\ exec_last = NoExec
    /\ exec_steps = 0
    /\ state = Initial(IterPc)
    /\ adapter = "Error"
    /\ iter_last = NoNext
    /\ next_calls = 0
    /\ IdleFormat
    /\ IdleThreads

\* the caller of the iterator calls next() again after every call
SpecWalk == InitWalk /\ [][NextIter]_vars /\ WF_vars(NextIter)

----------------------------------------------------------------------------
(* SpecThreads: threads that share the global generation.  Thread t owns   *)
(* unwinder t and calls new, add_module and remove_module on it.  A call   *)
(* takes two steps: the fetch_add on GLOBAL_MODULES_GENERATION, an atomic  *)
(* read-modify-write, and then the writes to the thread's own unwinder;    *)
(* the steps of different threads interleave in every order.               *)

\* the fetch_add of a call: the thread keeps what it returned
ThreadFetchAdd(t, op, module, search) ==
    /\ threads[t].pc = "idle"
    /\ bumps < MaxBumps
    /\ \E g \in {next_global_modules_generation(GLOBAL_MODULES_GENERATION)} :
          /\ GLOBAL_MODULES_GENERATION' = g.counter
          /\ threads' = [threads EXCEPT ![t] =
                            [pc |-> "fetched", op |-> op, value |-> g.value,
                             index |-> bumps, module |-> module, search |-> search]]
    /\ bumps' = bumps + 1
    /\ UNCHANGED <<unwinders, last, unwinder_ghost, entry_ghost>>
    /\ UNCHANGED <<exec_vars, cache_vars, iter_vars, format_vars>>

ThreadNew(t) ==
    /\ ~unwinders[t].created
    /\ ThreadFetchAdd(t, "new", NoThreadCall.module, NoThreadCall.search)

ThreadAddModule(t, module) ==
    /\ unwinders[t].created
    /\ Len(unwinders[t].modules) < MaxModules
    /\ \E search \in binary_search_by_key(unwinders[t].modules, module.avma_start) :
          ThreadFetchAdd(t, "add_module", module, search)

\* a remove_module that finds no module makes no fetch_add and changes nothing
ThreadRemoveModule(t, start) ==
    /\ unwinders[t].created
    /\ \E search \in binary_search_by_key(unwinders[t].modules, start) :
          /\ search.found
          /\ ThreadFetchAdd(t, "remove_module", NoThreadCall.module, search)

\* the rest of the call: the thread writes its own unwinder, with the
\* generation its fetch_add returned
ThreadComplete(t) ==
    /\ threads[t].pc = "fetched"
    /\ LET c == threads[t]
           done == CASE c.op = "new" -> new(c.value)
                     [] c.op = "add_module" ->
                            add_module(unwinders[t], c.module, c.search, c.value)
                     [] c.op = "remove_module" ->
                            remove_module(unwinders[t], c.search, c.value)
       IN  /\ unwinders' = [unwinders EXCEPT ![t] = done.unwinder]
           /\ unwinder_ghost' = [unwinder_ghost EXCEPT ![t] = [alloc |-> c.index]]
           /\ last' = Call(c.op, t)
    /\ threads' = [threads EXCEPT ![t] = NoThreadCall]
    /\ UNCHANGED <<GLOBAL_MODULES_GENERATION, bumps, entry_ghost>>
    /\ UNCHANGED <<exec_vars, cache_vars, iter_vars, format_vars>>

NextThreads ==
    \/ \E t \in UnwinderIds : ThreadNew(t)
    \/ \E t \in UnwinderIds, module \in ModuleInputs : ThreadAddModule(t, module)
    \/ \E t \in UnwinderIds, start \in RemoveInputs : ThreadRemoveModule(t, start)
    \/ \E t \in UnwinderIds : ThreadComplete(t)

SpecThreads == Init /\ [][NextThreads]_vars

----------------------------------------------------------------------------
(* SpecModule: Module::new applied to module sources that provide any      *)
(* subset of the sections the constructor probes, with either outcome of   *)
(* the FDE index construction.                                             *)

SectionNames == {"__unwind_info", ".eh_frame_hdr", ".eh_frame", ".debug_frame"}
SectionInfoInputs == SUBSET SectionNames
IndexInputs == {"Ok", "Err"}
AvmaRangeInputs == {[start |-> 1000, end |-> 3000], [start |-> 1500, end |-> 2000]}

InitModule ==
    /\ entries = EmptyEntries
    /\ stats = NewStats
    /\ IdleCacheCaller
    /\ IdleExec
    /\ IdleUnwinders
    /\ IdleIterator
    /\ module_last = NoModuleNew
    /\ cui_last = NoCui
    /\ IdleThreads

ModuleNew(avma_range, section_info, eh_frame_index, debug_frame_index) ==
    /\ module_last' =
          [called |-> TRUE, section_info |-> section_info,
           eh_frame_index |-> eh_frame_index,
           debug_frame_index |-> debug_frame_index,
           module |-> Module_new(avma_range, avma_range.start, section_info,
                                 eh_frame_index, debug_frame_index)]
    /\ UNCHANGED <<exec_vars, cache_vars, unwinder_vars, iter_vars, cui_last, threads>>

NextModule ==
    \E avma_range \in AvmaRangeInputs, section_info \in SectionInfoInputs,
       eh_frame_index \in IndexInputs, debug_frame_index \in IndexInputs :
        ModuleNew(avma_range, section_info, eh_frame_index, debug_frame_index)

SpecModule == InitModule /\ [][NextModule]_vars

----------------------------------------------------------------------------
(* SpecMacho: the compact unwind info adapter applied to one frame of a    *)
(* function: every kind of opcode, with and without the function's bytes,  *)
(* on first and later frames, followed by the dispatcher's choice of the   *)
(* rule for the adapter's answer.                                          *)

SavedRegsInputs ==
    {NoSavedRegs,
     <<"Rbp", "None", "None", "None", "None", "None">>,
     <<"Rbx", "Rbp", "None", "None", "None", "None">>,
     <<"Rbp", "None", "Rbx", "None", "None", "None">>,
     <<"Rbp", "Rbx", "R12", "None", "None", "None">>}
StackSizeInputs == {0, 8, 16, 24, 2040}
ImmediateOffsetInputs == {0, 16, 18}
StackAdjustInputs == {0, 32}
OpcodeInputs ==
    {OpcodeNull, FrameBased, UnrecognizedKind, InvalidFrameless, OpcodeDwarf(64)}
    \cup {FramelessImmediate(size, saved_regs) :
              size \in StackSizeInputs, saved_regs \in SavedRegsInputs}
    \cup {FramelessIndirect(offset, adjust, saved_regs) :
              offset \in ImmediateOffsetInputs, adjust \in StackAdjustInputs,
              saved_regs \in SavedRegsInputs}

\* the first 16 bytes of a function: with the frame pointer prologue, with
\* its first three bytes only, and without it
Nops(n) == [i \in 1 .. n |-> 144]
HeadInputs ==
    {FramePointerPrologue \o Nops(12), <<85, 72, 137, 144>> \o Nops(12), Nops(16)}
\* the four bytes at offset 16, little-endian: 0x100, 8, 12, 0x7fff8,
\* 0x80000, 0xffffffe0
WordInputs ==
    {<<0, 1, 0, 0>>, <<8, 0, 0, 0>>, <<12, 0, 0, 0>>, <<248, 255, 7, 0>>,
     <<0, 0, 8, 0>>, <<224, 255, 255, 255>>}
FunctionBytesInputs ==
    {None, Some(FramePointerPrologue)}
    \cup {Some(head \o word) : head \in HeadInputs, word \in WordInputs}
AnalysisInputs == {None, Some(JustReturn), Some(OffsetSp(2))}
DwarfInputs == {ExecRuleResult(UseFramePointer), Uncacheable(1049344),
                UnwinderError("Dwarf")}

InitMacho ==
    /\ entries = EmptyEntries
    /\ stats = NewStats
    /\ IdleCacheCaller
    /\ IdleExec
    /\ IdleUnwinders
    /\ IdleIterator
    /\ module_last = NoModuleNew
    /\ cui_last = NoCui
    /\ IdleThreads

\* the adapter keeps no state between calls: one call is made per behaviour
CuiUnwindFrame(opcode, is_first_frame, function_bytes) ==
    /\ ~cui_last.called
    /\ \E analysis \in IF is_first_frame /\ function_bytes.some
                        THEN AnalysisInputs ELSE {None} :
         \E result \in {CompactUnwindInfoUnwinding_unwind_frame(
                            opcode, is_first_frame, analysis, function_bytes)} :
           \E eh_frame \in IF result.kind = "NeedDwarf" THEN BOOLEAN ELSE {FALSE} :
             \E dwarf_result \in IF eh_frame THEN DwarfInputs ELSE {NotCalled} :
               \E callback \in {cui_callback(result, eh_frame, dwarf_result)} :
                  cui_last' =
                      [called |-> TRUE, opcode |-> opcode,
                       is_first_frame |-> is_first_frame, analysis |-> analysis,
                       function_bytes |-> function_bytes, result |-> result,
                       callback |-> callback,
                       rule |-> rule_on_miss(TRUE, callback).rule]
    /\ UNCHANGED <<exec_vars, cache_vars, unwinder_vars, iter_vars, module_last, threads>>

NextMacho ==
    \E opcode \in OpcodeInputs, is_first_frame \in BOOLEAN,
       function_bytes \in FunctionBytesInputs :
        CuiUnwindFrame(opcode, is_first_frame, function_bytes)

SpecMacho == InitMacho /\ [][NextMacho]_vars

----------------------------------------------------------------------------
(* Claims about rule execution, checked under SpecExec *)

RestoresBp(rule) == rule.kind \in {"OffsetSpAndRestoreBp", "UseFramePointer"}

\* new_sp as the rule's documentation gives it: sp + 8, sp + 8n, bp + 16
DocNewSp(rule, r) ==
    CASE rule.kind = "JustReturn" -> r.sp + 8
      [] rule.kind = "OffsetSp" -> r.sp + 8 * rule.sp_offset_by_8
      [] rule.kind = "OffsetSpAndRestoreBp" -> r.sp + 8 * rule.sp_offset_by_8
      [] rule.kind = "UseFramePointer" -> r.bp + 16

\* where the rule's documentation finds the caller's bp: sp + 8k, or bp
DocBpLocation(rule, r) ==
    IF rule.kind = "OffsetSpAndRestoreBp"
    THEN r.sp + 8 * rule.bp_storage_offset_from_sp_by_8
    ELSE r.bp

\* the exec call read the return address (its last read_stack call)
ReadReturnAddress(x) == Len(x.reads) = (IF RestoresBp(x.rule) THEN 2 ELSE 1)

IsIntegerOverflow(result) == result.kind = "Err" /\ result.err = "IntegerOverflow"

(* C6: rule execution never panics: for every rule, register state and
   read_stack behaviour exec returns Ok(Some(ra)), Ok(None) or an Error; no
   addition or subtraction in it overflows unchecked.  (Stated as claimed; the
   unchecked new_sp - 8 of line 135 violates it.) *)
C6_ExecNeverPanics ==
    exec_last.called => exec_last.result.kind \in {"Some", "None", "Err"}

(* C7: when exec succeeds it returns Ok(Some(ra)) where ra is the value read
   at new_sp - 8 (u64 arithmetic) and the registers become (ip = ra,
   sp = new_sp, bp = new_bp), with (new_sp, new_bp) = (sp + 8, bp) for
   JustReturn, (sp + 8n, bp) for OffsetSp, (sp + 8n, *(sp + 8k)) for
   OffsetSpAndRestoreBp and (bp + 16, *bp) for UseFramePointer; and the stack of
   test_basic unwinds as OffsetSp{1}, UseFramePointer, UseFramePointer to
   (0x100300, 0x18, 0x20), (0x100200, 0x30, 0x40), (0x100100, 0x50, 0x70) and a
   further UseFramePointer returns Ok(None). *)
C7_RuleSemantics ==
    LET x == exec_last
        r == x.before
        n == Len(x.reads)
        new_sp == DocNewSp(x.rule, r)
        new_bp == IF RestoresBp(x.rule) THEN x.reads[1].res.val ELSE r.bp
    IN  /\ (x.called /\ x.result.kind = "Some") =>
              /\ ReadReturnAddress(x)
              /\ RestoresBp(x.rule) =>
                    /\ x.reads[1].addr = DocBpLocation(x.rule, r)
                    /\ x.reads[1].res.some
              /\ x.reads[n].addr = (new_sp + U64Modulus - 8) % U64Modulus
              /\ x.reads[n].res = Some(x.result.val)
              /\ regs = [ip |-> x.result.val, sp |-> new_sp, bp |-> new_bp]
        /\ (x.called /\ read_stack = ArrayStack) =>
              /\ (r = TestRegs /\ x.rule = OffsetSp(1)) =>
                    /\ x.result = OkSome(1049344)
                    /\ regs = [ip |-> 1049344, sp |-> 24, bp |-> 32]
              /\ (r = [ip |-> 1049344, sp |-> 24, bp |-> 32] /\ x.rule = UseFramePointer) =>
                    /\ x.result = OkSome(1049088)
                    /\ regs = [ip |-> 1049088, sp |-> 48, bp |-> 64]
              /\ (r = [ip |-> 1049088, sp |-> 48, bp |-> 64] /\ x.rule = UseFramePointer) =>
                    /\ x.result = OkSome(1048832)
                    /\ regs = [ip |-> 1048832, sp |-> 80, bp |-> 112]
              /\ (r = [ip |-> 1048832, sp |-> 80, bp |-> 112] /\ x.rule = UseFramePointer) =>
                    x.result = OkNone

\* the fourth exec of test_basic returned Ok(None)
C7_Witness ==
    /\ exec_last.called
    /\ exec_steps = 4
    /\ read_stack = ArrayStack
    /\ exec_last.rule = UseFramePointer
    /\ exec_last.before = [ip |-> 1048832, sp |-> 80, bp |-> 112]
    /\ exec_last.result = OkNone

(* C8: exec returns Err(IntegerOverflow) whenever sp + 8 (JustReturn) or
   sp + 8n (OffsetSp, OffsetSpAndRestoreBp) exceeds u64::MAX, whenever sp + 8k
   of OffsetSpAndRestoreBp falls outside 0 ..= u64::MAX, and whenever bp + 16
   exceeds u64::MAX for UseFramePointer with bp # 0; all four rules of
   test_overflow return it for (0x100400, (u64::MAX / 8) * 8, u64::MAX). *)
C8_OverflowReported ==
    LET x == exec_last
        r == x.before
        bp_location == DocBpLocation(x.rule, r)
    IN  x.called =>
          /\ (x.rule.kind # "UseFramePointer" /\ DocNewSp(x.rule, r) > U64Max)
                => IsIntegerOverflow(x.result)
          /\ (x.rule.kind = "OffsetSpAndRestoreBp"
                /\ (bp_location < 0 \/ bp_location > U64Max))
                => IsIntegerOverflow(x.result)
          /\ (x.rule.kind = "UseFramePointer" /\ r.bp # 0 /\ r.bp + 16 > U64Max)
                => IsIntegerOverflow(x.result)
          /\ (r = OverflowRegs /\ x.rule \in {JustReturn, OffsetSp(1),
                                               OffsetSpAndRestoreBp(1, 2),
                                               UseFramePointer})
                => IsIntegerOverflow(x.result)

\* OffsetSpAndRestoreBp whose sp + 8n fits and whose sp + 8k is negative
C8_Witness ==
    /\ exec_last.called
    /\ exec_last.rule.kind = "OffsetSpAndRestoreBp"
    /\ DocNewSp(exec_last.rule, exec_last.before) <= U64Max
    /\ DocBpLocation(exec_last.rule, exec_last.before) < 0
    /\ IsIntegerOverflow(exec_last.result)

(* C9: exec returns Ok(None) if and only if the rule is UseFramePointer and
   bp == 0, or the return address read from new_sp - 8 is 0; in every other
   case it returns Ok(Some(ra)) with ra # 0 or an Err.  (Stated as claimed; the
   panic of C6 is a case in which exec returns none of these.) *)
C9_CleanTermination ==
    LET x == exec_last
        root == \/ x.rule.kind = "UseFramePointer" /\ x.before.bp = 0
                \/ ReadReturnAddress(x) /\ x.reads[Len(x.reads)].res = Some(0)
    IN  x.called =>
          /\ root <=> x.result = OkNone
          /\ ~root => \/ x.result.kind = "Some" /\ x.result.val # 0
                      \/ x.result.kind = "Err"

(* C10: UseFramePointer executed with bp == 0 returns Ok(None) without calling
   read_stack at all, and leaves the registers alone, for every sp and ip. *)
C10_FramePointerRoot ==
    (exec_last.called /\ exec_last.rule = UseFramePointer /\ exec_last.before.bp = 0)
        => /\ exec_last.result = OkNone
           /\ exec_last.reads = <<>>
           /\ regs = exec_last.before

\* UseFramePointer met bp == 0 with a large sp
C10_Witness ==
    /\ exec_last.called
    /\ exec_last.rule = UseFramePointer
    /\ exec_last.before.bp = 0
    /\ exec_last.before.sp = U64Max
    /\ exec_last.result = OkNone

----------------------------------------------------------------------------
(* Claims about the rule cache, checked under SpecCache *)

\* the i-th call on the cache was lookup(A, G) and returned a Miss, the next
\* call inserted rule R with that Miss's handle, and the call after it was
\* lookup(A, G) again
RoundTripAt(i) ==
    /\ i + 2 <= Len(cache_hist)
    /\ cache_hist[i].op = "lookup" /\ ~cache_hist[i].hit
    /\ cache_hist[i + 1].op = "insert"
    /\ cache_hist[i + 1].handle = cache_hist[i].handle
    /\ cache_hist[i + 2].op = "lookup"
    /\ cache_hist[i + 2].address = cache_hist[i].address
    /\ cache_hist[i + 2].modules_generation = cache_hist[i].modules_generation

(* C2: cache round trip: if lookup(A, G) returns Miss(h) and insert(h, R) is
   performed next, an immediately following lookup(A, G) returns Hit(R). *)
C2_CacheRoundTrip ==
    \A i \in 1 .. Len(cache_hist) :
        RoundTripAt(i) =>
            /\ cache_hist[i + 2].hit
            /\ cache_hist[i + 2].rule = cache_hist[i + 1].rule

\* a round trip through a slot that held another address's entry before
C2_Witness ==
    \E i \in 1 .. Len(cache_hist) :
        /\ RoundTripAt(i)
        /\ cache_hist[i].slot \in DOMAIN cache_hist[i].before
        /\ cache_hist[i + 2].hit
        /\ cache_hist[i + 2].rule = UseFramePointer

----------------------------------------------------------------------------
(* Claims about unwinders that share a cache, checked under Spec *)

ExecErrors == {"IntegerOverflow", "FramepointerUnwindingMovedBackwards",
               "CouldNotReadStack"}

\* the slot of the last unwind_frame call held, when the call began, a rule
\* cached for the same lookup address
FoundSameAddress ==
    /\ last.op = "unwind_frame"
    /\ last.found.populated
    /\ last.found.same_address

\* ... which an earlier unwind_frame call of the same unwinder had inserted
\* before an add_module or a removing remove_module of that unwinder
FoundOwnStale ==
    /\ FoundSameAddress
    /\ last.found.owner = last.unwinder
    /\ last.found.alloc # unwinder_ghost[last.unwinder].alloc

\* ... which an unwind_frame call of the other unwinder had inserted
FoundForeign ==
    /\ FoundSameAddress
    /\ last.found.owner # last.unwinder

\* generation bumps since the found rule was inserted
BumpsSinceInsert == bumps - last.found.inserted_at
\* generation bumps after the fetch_add that allocated the generation the
\* found rule was cached under
BumpsSinceAlloc == bumps - (last.found.alloc + 1)
\* distance between that fetch_add and the one that allocated the calling
\* unwinder's generation
AllocDistance ==
    LET d == unwinder_ghost[last.unwinder].alloc - last.found.alloc
    IN  IF d < 0 THEN 0 - d ELSE d

(* C1, as claimed: after an add_module or a removing remove_module on an
   unwinder, no rule an earlier unwind_frame call of that unwinder inserted is
   returned as a Hit to a later unwind_frame call of it, provided fewer than
   2^16 generation bumps happened between the two calls. *)
C1_Original ==
    (FoundOwnStale /\ BumpsSinceInsert < GenerationModulus) => ~last.hit

(* C1, amended: ... provided fewer than 2^16 generation bumps happened after
   the fetch_add that allocated the generation the rule was cached under (the
   unwinder's generation at the earlier call) and before the later call. *)
C1_StaleRuleMisses ==
    (FoundOwnStale /\ BumpsSinceAlloc < GenerationModulus) => ~last.hit

\* an unwinder looked up an address it had cached before its modules changed
C1_Witness ==
    /\ FoundOwnStale
    /\ BumpsSinceAlloc < GenerationModulus
    /\ ~last.hit
    /\ last.inserted

(* C3, as claimed: when two unwinders use the same cache, a rule inserted
   during an unwind_frame call of one is never returned as a Hit to an
   unwind_frame call of the other, for any interleaving of new, add_module,
   remove_module and unwind_frame calls. *)
C3_Original == FoundForeign => ~last.hit

(* C3, amended: ... provided fewer than 2^16 generation bumps separate the
   fetch_add that allocated the generation the rule was cached under from the
   fetch_add that allocated the other unwinder's current generation. *)
C3_ForeignRuleMisses ==
    (FoundForeign /\ AllocDistance < GenerationModulus) => ~last.hit

\* an unwinder looked up an address the other unwinder had cached
C3_Witness ==
    /\ FoundForeign
    /\ AllocDistance < GenerationModulus
    /\ ~last.hit

(* C4: whenever the format adapter returns an UnwinderError for a frame whose
   module was found, unwind_frame does not return that error: it inserts the
   fallback rule UseFramePointer into the cache under (lookup address, current
   generation) and returns the result of executing the fallback rule; the only
   errors unwind_frame returns are those of rule execution. *)
C4_AdapterErrorsSwallowed ==
    LET u == last.unwinder
        slot == slot_of(last.lookup_address)
        fallback == exec(UseFramePointer, last.regs_before, read_stack, overflow_checks)
    IN  last.op = "unwind_frame" =>
          /\ last.callback.kind = "Err" =>
                /\ last.module_found
                /\ slot \in DOMAIN entries
                /\ entries[slot] = CacheEntry(last.lookup_address,
                                              unwinders[u].modules_generation,
                                              UseFramePointer)
                /\ last.result = fallback.result
                /\ regs = fallback.regs
          /\ last.result.kind = "Err" => last.result.err \in ExecErrors

\* the compact unwind info adapter failed and the fallback rule failed in turn
C4_Witness ==
    /\ last.op = "unwind_frame"
    /\ last.callback = UnwinderError("CompactUnwindInfo")
    /\ last.result = Err("IntegerOverflow", 0)

(* C5: when the adapter returns Uncacheable(return_address), unwind_frame
   returns Ok(Some(return_address)) and every cache slot holds the same entry
   as before the call, so that an unwind_frame at the same address misses
   again. *)
C5_UncacheableNotCached ==
    [][(last'.op = "unwind_frame" /\ last'.callback.kind = "Uncacheable") =>
          /\ last'.result = OkSome(last'.callback.return_address)
          /\ entries' = entries
          /\ ~lookup(entries', stats', last'.lookup_address,
                     unwinders'[last'.unwinder].modules_generation).hit]_vars

\* an Uncacheable result for an address whose slot holds another entry
C5_Witness ==
    /\ last.op = "unwind_frame"
    /\ last.callback.kind = "Uncacheable"
    /\ last.found.populated
    /\ last.result = OkSome(1049344)
    /\ slot_of(last.lookup_address) \in DOMAIN entries

----------------------------------------------------------------------------
(* Frame pointer unwinding that moves backwards, checked under SpecExec *)

\* the last rule executed was UseFramePointer with bp + 16 <= sp
MovesBackwards ==
    /\ exec_last.called
    /\ exec_last.rule.kind = "UseFramePointer"
    /\ exec_last.before.bp + 16 <= exec_last.before.sp

(* C11, as claimed: UseFramePointer returns
   Err(FramepointerUnwindingMovedBackwards) for every register state in which
   bp + 16 <= sp. *)
C11_Original ==
    MovesBackwards =>
        exec_last.result = Err("FramepointerUnwindingMovedBackwards", 0)

(* C11, amended: UseFramePointer returns
   Err(FramepointerUnwindingMovedBackwards), without calling read_stack and
   without changing regs, for every register state in which bp != 0 and
   bp + 16 <= sp; with bp = 0 it returns Ok(None) whatever sp is. *)
C11_MovedBackwards ==
    MovesBackwards =>
        IF exec_last.before.bp = 0
        THEN exec_last.result = OkNone
        ELSE /\ exec_last.result = Err("FramepointerUnwindingMovedBackwards", 0)
             /\ exec_last.reads = <<>>
             /\ regs = exec_last.before

\* a non-zero frame pointer below the stack pointer
C11_Witness ==
    /\ MovesBackwards
    /\ exec_last.before.bp = 16
    /\ exec_last.before.sp > 32
    /\ exec_last.result = Err("FramepointerUnwindingMovedBackwards", 0)

----------------------------------------------------------------------------
(* Claims about the iterator, checked under SpecIter *)

(* C12: iterator start: the first next() on a new iterator returns
   Ok(Some(InstructionPointer(pc))) and moves the state to
   Unwinding(InstructionPointer(pc)), without calling the dispatcher (so
   neither the cache nor read_stack) and without changing regs. *)
C12_IteratorStart ==
    (iter_last.called /\ next_calls = 1) =>
        /\ iter_last.state_before = Initial(IterPc)
        /\ iter_last.result = FrameSome(InstructionPointer(IterPc))
        /\ state = Unwinding(InstructionPointer(IterPc))
        /\ ~iter_last.dispatch.made
        /\ regs = iter_last.regs_before
        /\ entries = iter_last.entries_before
        /\ stats = iter_last.stats_before

\* the first call has been made on an iterator over a registered module
C12_Witness ==
    /\ next_calls = 1
    /\ iter_last.state_before.kind = "Initial"
    /\ state.kind = "Unwinding"
    /\ unwinders[1].modules # <<>>

(* C13: every frame next() yields after the first is ReturnAddress(ra) with
   ra != 0; when the dispatcher returns Ok(Some(0)), next() returns
   Err(ReturnAddressIsNull), yields no frame and leaves the iterator state
   as it was. *)
C13_NoNullReturnAddress ==
    iter_last.called =>
        /\ (next_calls > 1 /\ iter_last.result.kind = "Some") =>
              /\ is_return_address(iter_last.result.frame)
              /\ iter_last.result.frame.addr # 0
              /\ state = Unwinding(iter_last.result.frame)
        /\ (iter_last.dispatch.made /\ iter_last.dispatch.result = OkSome(0)) =>
              /\ iter_last.result = FrameErr("ReturnAddressIsNull", 0)
              /\ state = iter_last.state_before

\* the dispatcher returned a null return address
C13_Witness ==
    /\ iter_last.called
    /\ iter_last.dispatch.made
    /\ iter_last.dispatch.result = OkSome(0)
    /\ iter_last.result.err = "ReturnAddressIsNull"

(* C14: Done is absorbing: a next() call for which the dispatcher returns
   Ok(None) returns Ok(None) and moves to Done, and every next() call made in
   Done returns Ok(None) and stays in Done without calling the dispatcher or
   read_stack and without touching regs or the cache. *)
C14_DoneAbsorbing ==
    [][/\ (iter_last'.dispatch.made /\ iter_last'.dispatch.result = OkNone) =>
              (iter_last'.result = FrameNone /\ state' = Done)
       /\ state = Done =>
              /\ iter_last'.result = FrameNone
              /\ state' = Done
              /\ ~iter_last'.dispatch.made
              /\ regs' = regs /\ entries' = entries /\ stats' = stats]_vars

\* next() was called on an iterator that was Done
C14_Witness ==
    /\ iter_last.called
    /\ iter_last.state_before = Done
    /\ iter_last.result = FrameNone
    /\ state = Done
    /\ next_calls >= 3

(* C15: errors do not corrupt the iterator: when next() returns Err(e) the
   iterator state is the same as before the call, and a further next() (the
   stack contents are constant) returns the same Err(e). *)
C15_ErrorsRepeat ==
    [][/\ iter_last'.result.kind = "Err" => state' = state
       /\ iter_last.result.kind = "Err" => iter_last'.result = iter_last.result]_vars

----------------------------------------------------------------------------
(* Claims about the module registry, checked under SpecRegistry and Spec *)

\* find_module_for_address was the last call, on a registry of one module
SingleModuleFind ==
    /\ last.op = "find_module_for_address"
    /\ Len(unwinders[last.unwinder].modules) = 1

InRange(module, address) ==
    module.avma_start <= address /\ address < module.avma_end

(* C16, as claimed: with a single module registered,
   find_module_for_address(addr) returns that module if and only if
   avma_start <= addr < avma_end and addr >= base_avma. *)
C16_Original ==
    SingleModuleFind =>
        LET module == unwinders[last.unwinder].modules[1]
        IN  last.find.some <=>
                (InRange(module, last.lookup_address)
                    /\ last.lookup_address >= module.base_avma)

(* C16, amended: with a single module registered,
   find_module_for_address(addr) returns that module, with the relative
   address addr - base_avma, if and only if avma_start <= addr < avma_end (or
   addr = avma_start, which is accepted without the comparison with
   avma_end), addr >= base_avma and addr - base_avma fits in 32 bits. *)
C16_ModuleLookup ==
    SingleModuleFind =>
        LET module == unwinders[last.unwinder].modules[1]
            address == last.lookup_address
        IN  /\ last.find.some <=>
                  /\ InRange(module, address) \/ address = module.avma_start
                  /\ address >= module.base_avma
                  /\ address - module.base_avma <= U32Max
            /\ last.find.some =>
                  /\ last.find.val.module_index = 0
                  /\ last.find.val.relative_address = address - module.base_avma

\* an address found in a module whose base address lies inside its range
C16_Witness ==
    /\ SingleModuleFind
    /\ last.find.some
    /\ unwinders[last.unwinder].modules[1].base_avma
          > unwinders[last.unwinder].modules[1].avma_start
    /\ last.find.val.relative_address > 0

SortedByStart(modules) ==
    \A i \in 1 .. Len(modules) - 1 :
        modules[i].avma_start <= modules[i + 1].avma_start

\* two modules share a start address or have overlapping ranges
Overlap(m1, m2) ==
    \/ m1.avma_start = m2.avma_start
    \/ m1.avma_start < m2.avma_end /\ m2.avma_start < m1.avma_end

Disjoint(modules) ==
    \A i \in 1 .. Len(modules), j \in 1 .. Len(modules) :
        i < j => ~Overlap(modules[i], modules[j])

\* the step is an add_module or remove_module call
RegistryCall == last'.op \in {"add_module", "remove_module"}
\* ... that changed the module list
RegistryMutation ==
    \/ last'.op = "add_module"
    \/ last'.op = "remove_module" /\ last'.module_found

(* C17, as claimed: after every sequence of add_module and remove_module
   calls the module list is sorted by avma_start with no two modules sharing
   or overlapping an address range, and each add or remove leaves the
   unwinder with a generation other than (greater than, modulo 2^16) the one
   it had before the call. *)
C17_Original ==
    [][RegistryCall =>
          /\ SortedByStart(unwinders'[last'.unwinder].modules)
          /\ Disjoint(unwinders'[last'.unwinder].modules)
          /\ unwinders'[last'.unwinder].modules_generation
                # unwinders[last'.unwinder].modules_generation]_vars

(* C17, amended: after every sequence of add_module and remove_module calls
   the module list is sorted by avma_start, not strictly; remove_module keeps
   a disjoint list disjoint, and add_module keeps it disjoint exactly when
   the added module overlaps no registered one (it is not checked).  An
   add_module, and a remove_module that removes a module, leaves the unwinder
   with a generation other than the one before the call provided fewer than
   2^16 - 1 other generation bumps happened since the earlier one was
   allocated; a remove_module that removes nothing leaves the generation
   unchanged. *)
C17_RegistryInvariant ==
    [][RegistryCall =>
          LET u == last'.unwinder
              before == unwinders[u]
              after == unwinders'[u]
          IN  /\ SortedByStart(after.modules)
              /\ last'.op = "remove_module" =>
                    (Disjoint(before.modules) => Disjoint(after.modules))
              /\ last'.op = "add_module" =>
                    \A module \in RegistryModuleInputs, i \in 0 .. Len(before.modules) :
                        (after.modules = VecInsert(before.modules, i, module)
                            /\ Disjoint(before.modules)) =>
                        (Disjoint(after.modules) <=>
                            \A j \in 1 .. Len(before.modules) :
                                ~Overlap(module, before.modules[j]))
              /\ (RegistryMutation /\ bumps - unwinder_ghost[u].alloc < GenerationModulus)
                    => after.modules_generation # before.modules_generation
              /\ ~RegistryMutation =>
                    after.modules_generation = before.modules_generation]_vars

\* add_module registered a second module at a start address already taken
C17_Witness ==
    /\ last.op = "add_module"
    /\ Len(unwinders[last.unwinder].modules) = 2
    /\ unwinders[last.unwinder].modules[1].avma_start
          = unwinders[last.unwinder].modules[2].avma_start
    /\ unwinders[last.unwinder].modules[1] # unwinders[last.unwinder].modules[2]

(* C18, as claimed: every add_module call and every remove_module call, on
   any unwinder, increments the global 16-bit modules generation counter and
   gives that unwinder a new generation value. *)
C18_Original ==
    [][RegistryCall =>
          /\ GLOBAL_MODULES_GENERATION'
                = (GLOBAL_MODULES_GENERATION + 1) % GenerationModulus
          /\ unwinders'[last'.unwinder].modules_generation
                = GLOBAL_MODULES_GENERATION]_vars

(* C18, amended: every add_module call, and every remove_module call that
   removes a module, on any unwinder, increments the global 16-bit modules
   generation counter by one modulo 2^16 and sets that unwinder's generation
   to the value the counter had before the increment; a remove_module call
   that finds no module with the given start address changes neither the
   counter nor the generation. *)
C18_MutationsBump ==
    [][RegistryCall =>
          IF RegistryMutation
          THEN /\ GLOBAL_MODULES_GENERATION'
                     = (GLOBAL_MODULES_GENERATION + 1) % GenerationModulus
               /\ unwinders'[last'.unwinder].modules_generation
                     = GLOBAL_MODULES_GENERATION
               /\ bumps' = bumps + 1
          ELSE /\ GLOBAL_MODULES_GENERATION' = GLOBAL_MODULES_GENERATION
               /\ unwinders' = unwinders
               /\ bumps' = bumps]_vars

\* remove_module removed a module that an earlier add_module registered
C18_Witness ==
    /\ last.op = "remove_module"
    /\ last.module_found
    /\ bumps >= 3

(* C19: remove_module(start) removes the module whose avma_start equals
   start (one of them, and nothing else); when no registered module has that
   start address the call is ignored: the module list and the generation are
   unchanged and every cached rule that was a Hit for this unwinder is still
   a Hit. *)
C19_RemoveModule ==
    [][\A u \in {last'.unwinder}, start \in RemoveInputs :
          (last'.op = "remove_module" /\ RemoveModule(u, start)) =>
             LET before == unwinders[u].modules
                 after == unwinders'[u].modules
                 starts == {i \in 1 .. Len(before) : before[i].avma_start = start}
             IN  IF starts # {}
                 THEN \E i \in starts : after = VecRemove(before, i - 1)
                 ELSE /\ unwinders' = unwinders
                      /\ entries' = entries
                      /\ \A slot \in DOMAIN entries :
                            lookup(entries, stats, entries[slot].address,
                                   unwinders[u].modules_generation).hit
                            => lookup(entries', stats', entries[slot].address,
                                      unwinders'[u].modules_generation).hit]_vars

\* an ignored remove_module on an unwinder that has a rule in the cache
C19_Witness ==
    /\ last.op = "remove_module"
    /\ ~last.module_found
    /\ unwinders[last.unwinder].modules # <<>>
    /\ \E slot \in DOMAIN entries :
          /\ entry_ghost[slot].owner = last.unwinder
          /\ lookup(entries, stats, entries[slot].address,
                    unwinders[last.unwinder].modules_generation).hit

(* C20: when no registered module contains the lookup address, unwind_frame
   on x86-64 (on a cache miss) caches and executes the fallback rule
   UseFramePointer without asking an adapter, whatever the frame kind. *)
C20_NoModuleFallback ==
    LET u == last.unwinder
        fallback == exec(UseFramePointer, last.regs_before, read_stack, overflow_checks)
    IN  (/\ last.op = "unwind_frame"
         /\ ~last.hit
         /\ \A i \in 1 .. Len(unwinders[u].modules) :
               ~InRange(unwinders[u].modules[i], last.lookup_address)) =>
            /\ last.rule = UseFramePointer
            /\ last.callback = NotCalled
            /\ last.inserted
            /\ entries[slot_of(last.lookup_address)].unwind_rule = UseFramePointer
            /\ last.result = fallback.result
            /\ regs = fallback.regs

\* a return-address frame outside the only registered module
C20_Witness ==
    /\ last.op = "unwind_frame"
    /\ is_return_address(last.address)
    /\ ~last.hit
    /\ unwinders[last.unwinder].modules # <<>>
    /\ ~last.module_found
    /\ last.rule = UseFramePointer
    /\ last.result.kind = "Some"

----------------------------------------------------------------------------
(* Claims about generation wrap-around, checked under Spec *)

\* the slot of the last unwind_frame call held a rule for the same lookup
\* address, cached under a generation that another fetch_add allocated than
\* the one that allocated the calling unwinder's generation
FoundOtherAllocation ==
    /\ FoundSameAddress
    /\ last.found.alloc # unwinder_ghost[last.unwinder].alloc

(* C21: the generation is a counter modulo 2^16: when exactly 2^16 bumps of
   the global counter separate the fetch_add that allocated the generation an
   entry was cached under from the fetch_add that allocated an unwinder's
   generation, the unwinder holds the entry's generation and its lookup of
   that address is a Hit that returns the old rule (a false hit); with fewer
   bumps the lookup is a Miss. *)
C21_WrapAround ==
    [][(last'.op = "unwind_frame" /\ FoundOtherAllocation')
          => /\ AllocDistance' < GenerationModulus => ~last'.hit
             /\ AllocDistance' = GenerationModulus
                   => /\ last'.hit
                      /\ unwinders[last'.unwinder].modules_generation
                            = entries[slot_of(last'.lookup_address)].modules_generation
                      /\ last'.rule
                            = entries[slot_of(last'.lookup_address)].unwind_rule
                      /\ entries' = entries]_vars

\* a false hit: the unwinder's generation was allocated GenerationModulus
\* bumps after the generation of the entry it hit
C21_Witness ==
    /\ FoundOtherAllocation
    /\ AllocDistance = GenerationModulus
    /\ last.hit
    /\ last.result.kind = "Some"

----------------------------------------------------------------------------
(* Claims about module construction, checked under SpecModule *)

Present(name) == name \in module_last.section_info

(* C22: the unwind-data variant of a constructed module is chosen by section
   presence, first match wins: __unwind_info gives
   CompactUnwindInfoAndEhFrame; else .eh_frame_hdr with .eh_frame gives
   EhFrameHdrAndEhFrame; else .eh_frame gives DwarfCfiIndexAndEhFrame; else
   .debug_frame gives DwarfCfiIndexAndDebugFrame; else None; and when building
   the FDE index of the chosen section fails the module gets None. *)
C22_VariantSelection ==
    module_last.called =>
        module_last.module.unwind_data =
            CASE Present("__unwind_info") -> "CompactUnwindInfoAndEhFrame"
              [] ~Present("__unwind_info")
                    /\ Present(".eh_frame_hdr") /\ Present(".eh_frame")
                    -> "EhFrameHdrAndEhFrame"
              [] ~Present("__unwind_info")
                    /\ ~Present(".eh_frame_hdr") /\ Present(".eh_frame")
                    -> IF module_last.eh_frame_index = "Err" THEN "None"
                       ELSE "DwarfCfiIndexAndEhFrame"
              [] ~Present("__unwind_info")
                    /\ ~Present(".eh_frame") /\ Present(".debug_frame")
                    -> IF module_last.debug_frame_index = "Err" THEN "None"
                       ELSE "DwarfCfiIndexAndDebugFrame"
              [] OTHER -> "None"

\* a module with .eh_frame and .debug_frame whose .eh_frame index could not
\* be built, while the index of .debug_frame could
C22_Witness ==
    /\ module_last.called
    /\ module_last.section_info = {".eh_frame", ".debug_frame"}
    /\ module_last.eh_frame_index = "Err"
    /\ module_last.debug_frame_index = "Ok"
    /\ module_last.module.unwind_data = "None"

----------------------------------------------------------------------------
(* Claims about max_known_code_address, checked under SpecRegistry *)

\* the maximum avma_end over the modules, 0 when there is none
MaxAvmaEnd(modules) ==
    IF modules = <<>> THEN 0
    ELSE CHOOSE e \in {modules[i].avma_end : i \in 1 .. Len(modules)} :
            \A i \in 1 .. Len(modules) : modules[i].avma_end <= e

(* C23: max_known_code_address returns the highest code address known from
   the module address ranges: the maximum avma_end over all registered
   modules, after any sequence of add_module and remove_module calls, and 0
   when no module is registered. *)
C23_MaxKnownCodeAddress ==
    last.op = "max_known_code_address" =>
        last.max_address = MaxAvmaEnd(unwinders[last.unwinder].modules)

----------------------------------------------------------------------------
(* Claims about the result and the statistics of a lookup, checked under   *)
(* SpecCache                                                               *)

Lookups == {i \in 1 .. Len(cache_hist) : cache_hist[i].op = "lookup"}

\* the slot the i-th call's address maps to, and whether it was populated
\* when the call began
SlotAt(i) == cache_hist[i].address % 509
PopulatedAt(i) == SlotAt(i) \in DOMAIN cache_hist[i].before
StoredAt(i) == cache_hist[i].before[SlotAt(i)]

(* C24: lookup(address, g) returns Hit(rule), with the rule stored in the
   slot, exactly when slot (address mod 509) is populated, its stored
   generation equals g and its stored address equals address; in every other
   case it returns Miss with a handle carrying that slot index, address and
   g. *)
C24_LookupResult ==
    \A i \in Lookups :
        LET c == cache_hist[i]
            match == /\ PopulatedAt(i)
                     /\ StoredAt(i).modules_generation = c.modules_generation
                     /\ StoredAt(i).address = c.address
        IN  /\ c.hit <=> match
            /\ c.hit => c.rule = StoredAt(i).unwind_rule
            /\ ~c.hit => c.handle = [slot |-> SlotAt(i), address |-> c.address,
                                     modules_generation |-> c.modules_generation]

\* a Hit, after a Miss on the same populated slot with the stored generation
\* and another address
C24_Witness ==
    \E i, j \in Lookups :
        /\ i < j
        /\ PopulatedAt(i)
        /\ StoredAt(i).modules_generation = cache_hist[i].modules_generation
        /\ StoredAt(i).address # cache_hist[i].address
        /\ ~cache_hist[i].hit
        /\ cache_hist[j].hit

\* the statistics after the i-th call are those before it with one counter
\* incremented
OnlyIncrements(i, counter) ==
    cache_hist[i].stats_after =
        [cache_hist[i].stats_before EXCEPT ![counter] = @ + 1]

(* C25: with rule R stored at address A under generation G, lookup(A, G) is
   Hit(R); lookup(A, G + 1) is a Miss that increments
   miss_wrong_modules_count and no other counter; lookup(A + 509, G) is a Miss
   that increments miss_wrong_address_count and no other counter; a lookup
   that maps to an empty slot is a Miss that increments only
   miss_empty_slot_count. *)
C25_MissClassification ==
    \A i \in Lookups :
        LET c == cache_hist[i]
        IN  /\ ~PopulatedAt(i) =>
                  ~c.hit /\ OnlyIncrements(i, "miss_empty_slot_count")
            /\ PopulatedAt(i) =>
                  /\ (c.address = StoredAt(i).address
                        /\ c.modules_generation = StoredAt(i).modules_generation)
                        => c.hit /\ c.rule = StoredAt(i).unwind_rule
                  /\ (c.address = StoredAt(i).address
                        /\ c.modules_generation = StoredAt(i).modules_generation + 1)
                        => ~c.hit /\ OnlyIncrements(i, "miss_wrong_modules_count")
                  /\ (c.address = StoredAt(i).address + 509
                        /\ c.modules_generation = StoredAt(i).modules_generation)
                        => ~c.hit /\ OnlyIncrements(i, "miss_wrong_address_count")

\* the three kinds of misses happened, on one cache, after an insert
C25_Witness ==
    \E i, j, k \in Lookups :
        /\ ~PopulatedAt(i)
        /\ PopulatedAt(j)
        /\ cache_hist[j].address = StoredAt(j).address
        /\ cache_hist[j].modules_generation = StoredAt(j).modules_generation + 1
        /\ PopulatedAt(k)
        /\ cache_hist[k].address = StoredAt(k).address + 509
        /\ cache_hist[k].modules_generation = StoredAt(k).modules_generation
        /\ cache_hist[Len(cache_hist)].stats_after =
              [hit_count |-> 0, miss_empty_slot_count |-> 1,
               miss_wrong_modules_count |-> 1, miss_wrong_address_count |-> 1]

----------------------------------------------------------------------------
(* Claims about the dispatcher's lookup address, checked under Spec *)

\* the address the claim names for the frame of the step's unwind_frame
\* call: pc for InstructionPointer(pc), ra - 1 for ReturnAddress(ra)
ClaimedLookupAddress ==
    IF last'.address.kind = "InstructionPointer"
    THEN last'.address.addr
    ELSE last'.address.addr - 1

\* the cache holds, before the step, a rule for address a under generation g
CachedBefore(a, g) ==
    /\ a % 509 \in DOMAIN entries
    /\ entries[a % 509].address = a
    /\ entries[a % 509].modules_generation = g

\* a module of the unwinder is found for address a
FoundIn(modules, a) ==
    \E search \in binary_search_by_key(modules, a) :
        find_module_for_address(modules, a, search).some

(* C26: for an InstructionPointer(pc) frame both the cache lookup and the
   module lookup use pc; for a ReturnAddress(ra) frame both use ra - 1; and
   the is_first_frame passed to the adapter and to rule execution is true
   exactly for InstructionPointer frames. *)
C26_LookupAddress ==
    [][last'.op = "unwind_frame" =>
          LET a == ClaimedLookupAddress
              u == unwinders[last'.unwinder]
          IN  /\ last'.hit <=> CachedBefore(a, u.modules_generation)
              /\ last'.inserted =>
                    /\ a % 509 \in DOMAIN entries'
                    /\ entries'[a % 509].address = a
              /\ ~last'.hit => (last'.module_found <=> FoundIn(u.modules, a))
              /\ last'.is_first_frame = (last'.address.kind = "InstructionPointer")
              /\ last'.callback.kind # "NotCalled" =>
                    last'.callback_is_first_frame
                        = (last'.address.kind = "InstructionPointer")]_vars

\* a return address that is the end of a module's range: the frame is looked
\* up, found and cached one byte below it, inside the module
C26_Witness ==
    /\ last.op = "unwind_frame"
    /\ last.address = ReturnAddress(1019)
    /\ last.module_found
    /\ unwinders[last.unwinder].modules[1].avma_end = 1019
    /\ last.callback.kind = "ExecRule"
    /\ last.inserted
    /\ entries[1018 % 509].address = 1018
    /\ ~last.is_first_frame
    /\ ~last.callback_is_first_frame

----------------------------------------------------------------------------
(* Claims about the compact unwind info adapter, checked under SpecMacho *)

\* the last call was for a function without unwind info (opcode Null)
NullOpcode == cui_last.called /\ cui_last.opcode.kind = "Null"

\* the function's bytes are available and begin with 55 48 89 e5
BeginsWithPrologue ==
    /\ cui_last.function_bytes.some
    /\ Len(cui_last.function_bytes.val) >= 4
    /\ cui_last.function_bytes.val[1] = 85
    /\ cui_last.function_bytes.val[2] = 72
    /\ cui_last.function_bytes.val[3] = 137
    /\ cui_last.function_bytes.val[4] = 229

\* instruction analysis was run and produced a rule
AnalysisProducedRule == cui_last.analysis.some

(* C27, as claimed: for a function whose opcode is Null and whose bytes begin
   with 55 48 89 e5 the adapter emits ExecRule(UseFramePointer), whether or
   not the frame is the first frame, unless instruction analysis already
   produced a rule. *)
C27_Original ==
    (NullOpcode /\ BeginsWithPrologue /\ ~AnalysisProducedRule)
        => cui_last.result = CuiExecRule(UseFramePointer)

(* C27, amended: ... the adapter emits ExecRule(UseFramePointer) when the
   frame is the first frame, unless instruction analysis already produced a
   rule; on any other frame it returns Err(FunctionHasNoInfo), for which the
   dispatcher substitutes its fallback rule. *)
C27_UncoveredPrologue ==
    (NullOpcode /\ BeginsWithPrologue /\ ~AnalysisProducedRule)
        => IF cui_last.is_first_frame
           THEN cui_last.result = CuiExecRule(UseFramePointer)
           ELSE /\ cui_last.result = CuiErr("FunctionHasNoInfo")
                /\ cui_last.rule = fallback_rule

\* the first frame of an uncovered function with the prologue, for which
\* instruction analysis found nothing
C27_Witness ==
    /\ NullOpcode
    /\ BeginsWithPrologue
    /\ cui_last.is_first_frame
    /\ ~AnalysisProducedRule
    /\ cui_last.result = CuiExecRule(UseFramePointer)
    /\ cui_last.rule = UseFramePointer

(* C28, as claimed: on the first frame a Null-opcode function yields
   ExecRule(JustReturn) when the prologue bytes 55 48 89 e5 are absent or text
   bytes are unavailable; on a non-first frame a Null-opcode function yields
   Err(FunctionHasNoInfo) even when it begins with 55 48 89 e5, and the
   dispatcher then substitutes the fallback rule. *)
C28_Original ==
    /\ (NullOpcode /\ cui_last.is_first_frame /\ ~BeginsWithPrologue)
          => cui_last.result = CuiExecRule(JustReturn)
    /\ (NullOpcode /\ ~cui_last.is_first_frame)
          => /\ cui_last.result = CuiErr("FunctionHasNoInfo")
             /\ cui_last.callback.kind = "Err"
             /\ cui_last.rule = fallback_rule

(* C28, amended: on the first frame a Null-opcode function yields
   ExecRule(JustReturn) when text bytes are unavailable, or when the prologue
   bytes are absent and instruction analysis produced no rule (a rule it
   produced is emitted instead); the rest as claimed. *)
C28_NullOpcodeByFrameKind ==
    /\ (NullOpcode /\ cui_last.is_first_frame /\ ~BeginsWithPrologue
            /\ ~AnalysisProducedRule)
          => cui_last.result = CuiExecRule(JustReturn)
    /\ (NullOpcode /\ cui_last.is_first_frame /\ AnalysisProducedRule)
          => cui_last.result = CuiExecRule(cui_last.analysis.val)
    /\ (NullOpcode /\ ~cui_last.is_first_frame)
          => /\ cui_last.result = CuiErr("FunctionHasNoInfo")
             /\ cui_last.callback.kind = "Err"
             /\ cui_last.rule = fallback_rule

\* a later frame of an uncovered function that begins with the prologue
C28_Witness ==
    /\ NullOpcode
    /\ ~cui_last.is_first_frame
    /\ BeginsWithPrologue
    /\ cui_last.result = CuiErr("FunctionHasNoInfo")
    /\ cui_last.callback = UnwinderError("CompactUnwindInfo")
    /\ cui_last.rule = UseFramePointer

\* the adapter translated the opcode: the frame was not taken to be in a
\* prologue or epilogue by instruction analysis
Translated(kind) ==
    /\ cui_last.called
    /\ cui_last.opcode.kind = kind
    /\ ~AnalysisProducedRule

\* whether rbp is in the saved-register list, and its position counted from
\* the outside: the number of registers saved after it
SavesBp(saved_regs) == \E i \in 1 .. 6 : saved_regs[i] = "Rbp"
PosFromOutside(saved_regs) ==
    LET outer == CHOOSE i \in 1 .. 6 :
                    /\ saved_regs[i] = "Rbp"
                    /\ \A j \in i + 1 .. 6 : saved_regs[j] # "Rbp"
    IN  Cardinality({j \in outer + 1 .. 6 : saved_regs[j] # "None"})

\* (S - 16 - 8 * pos) / 8 in i32 arithmetic
BpOffsetBy8(size, pos) ==
    LET a == size - 16 - 8 * pos
    IN  IF a >= 0 THEN a \div 8 ELSE 0 - ((0 - a) \div 8)

\* the rule of the frameless-immediate case for stack size S and the saved
\* registers, for S below 2^19
ImmediateRule(size, saved_regs) ==
    IF size = 8 THEN CuiExecRule(JustReturn)
    ELSE IF SavesBp(saved_regs)
    THEN LET k == BpOffsetBy8(size, PosFromOutside(saved_regs))
         IN  IF k < -32768 \/ k > 32767
             THEN CuiErr("BpOffsetDoesNotFit")
             ELSE CuiExecRule(OffsetSpAndRestoreBp(size \div 8, k))
    ELSE CuiExecRule(OffsetSp(size \div 8))

(* C29: when the adapter translates a FramelessImmediate opcode with stack
   size S and a saved-register list, it emits JustReturn when S == 8;
   otherwise, when rbp is in the saved list at position pos counted from the
   outside, OffsetSpAndRestoreBp{n = S/8, k = (S - 16 - 8*pos)/8} (or
   Err(BpOffsetDoesNotFit) when k does not fit i16); otherwise
   OffsetSp{n = S/8}. *)
C29_FramelessImmediate ==
    Translated("FramelessImmediate") =>
        cui_last.result = ImmediateRule(cui_last.opcode.stack_size_in_bytes,
                                        cui_last.opcode.saved_regs)

\* rbp saved first, then an unused slot, then rbx: one register is saved
\* after rbp
C29_Witness ==
    /\ Translated("FramelessImmediate")
    /\ cui_last.opcode.stack_size_in_bytes = 24
    /\ cui_last.opcode.saved_regs = <<"Rbp", "None", "Rbx", "None", "None", "None">>
    /\ cui_last.result = CuiExecRule(OffsetSpAndRestoreBp(3, 0))

\* the four bytes at the opcode's immediate offset, when they can be read
IndirectBytes ==
    SubSeq(cui_last.function_bytes.val,
           cui_last.opcode.immediate_offset_from_function_start + 1,
           cui_last.opcode.immediate_offset_from_function_start + 4)
IndirectReadable ==
    /\ cui_last.function_bytes.some
    /\ cui_last.opcode.immediate_offset_from_function_start + 4
          <= Len(cui_last.function_bytes.val)

\* S = the little-endian u32 stored there plus stack_adjust, as its low 16
\* bits plus the carry and its high 16 bits
IndirectLow ==
    IndirectBytes[1] + 256 * IndirectBytes[2] + cui_last.opcode.stack_adjust_in_bytes
IndirectHigh ==
    IndirectBytes[3] + 256 * IndirectBytes[4] + IndirectLow \div 65536
IndirectOverflows == IndirectHigh >= 65536
\* S / 8 exceeds u16::MAX exactly when S >= 2^19
IndirectTooLarge == IndirectHigh >= 8
IndirectSize == IndirectHigh * 65536 + (IndirectLow % 65536)

(* C30: when the adapter translates a FramelessIndirect opcode, with S = the
   little-endian u32 at text_bytes[imm_off..imm_off+4] plus stack_adjust, it
   emits exactly the rule the frameless-immediate case emits for the same S
   and saved registers, for every S including S == 8; missing text bytes give
   NoTextBytesToLookUpIndirectStackOffset, an out-of-range read
   IndirectStackOffsetOutOfBounds, u32 overflow of the sum StackAdjustOverflow,
   and S/8 above u16::MAX StackSizeDoesNotFit. *)
C30_FramelessIndirect ==
    Translated("FramelessIndirect") =>
        cui_last.result =
            IF ~cui_last.function_bytes.some
            THEN CuiErr("NoTextBytesToLookUpIndirectStackOffset")
            ELSE IF ~IndirectReadable THEN CuiErr("IndirectStackOffsetOutOfBounds")
            ELSE IF IndirectOverflows THEN CuiErr("StackAdjustOverflow")
            ELSE IF IndirectTooLarge THEN CuiErr("StackSizeDoesNotFit")
            ELSE ImmediateRule(IndirectSize, cui_last.opcode.saved_regs)

----------------------------------------------------------------------------
(* Claims about the atomicity of rule execution, checked under SpecExec *)

(* C31: registers are committed atomically: exec changes regs only when it
   returns Ok(Some(ra)); whenever it returns Ok(None) or an Err
   (IntegerOverflow, FramepointerUnwindingMovedBackwards, CouldNotReadStack),
   ip, sp and bp all hold the values they had before the call, even if
   read_stack was already called once. *)
C31_AtomicCommit ==
    LET x == exec_last
    IN  x.called =>
          /\ regs # x.before => x.result.kind = "Some"
          /\ x.result.kind = "Err" => x.result.err \in ExecErrors
          /\ x.result.kind \in {"None", "Err"} =>
                /\ regs.ip = x.before.ip
                /\ regs.sp = x.before.sp
                /\ regs.bp = x.before.bp

\* OffsetSpAndRestoreBp read the saved bp, a value that differs from bp, and
\* then failed to read the return address
C31_Witness ==
    /\ exec_last.called
    /\ exec_last.rule.kind = "OffsetSpAndRestoreBp"
    /\ exec_last.rule.sp_offset_by_8 > 0
    /\ Len(exec_last.reads) = 2
    /\ exec_last.reads[1].res.some
    /\ exec_last.reads[1].res.val # exec_last.before.bp
    /\ exec_last.result.kind = "Err"
    /\ exec_last.result.err = "CouldNotReadStack"
    /\ regs = exec_last.before

----------------------------------------------------------------------------
(* Claims about frame-pointer walks, checked under SpecWalk *)

\* the last next() call unwound a frame with the fallback rule
WalkStep ==
    /\ iter_last.called
    /\ iter_last.dispatch.made
    /\ iter_last.dispatch.rule = UseFramePointer

\* the walk has come to its end: next() returned Ok(None) or an Err
WalkEnded ==
    /\ iter_last.called
    /\ iter_last.result.kind \in {"None", "Err"}

(* C32: termination of frame-pointer walks: an iterator walk in which every
   frame resolves to UseFramePointer reaches Ok(None) or an Err after finitely
   many next() calls, for every stack content and initial register state,
   because each successful UseFramePointer step strictly increases sp
   (new_sp = bp + 16 > sp) within a bounded address space. *)
C32_WalkTerminates ==
    /\ <>WalkEnded
    /\ [][(WalkStep' /\ iter_last'.result.kind = "Some")
            => (regs'.sp = regs.bp + 16 /\ regs'.sp > regs.sp /\ regs'.sp <= U64Max)]_vars
    /\ [](iter_last.dispatch.made => WalkStep)

\* a walk of two successful frame-pointer steps has ended
C32_Witness ==
    /\ WalkEnded
    /\ WalkStep
    /\ next_calls = 4
    /\ iter_last.state_before.kind = "Unwinding"
    /\ iter_last.state_before.address.kind = "ReturnAddress"
    /\ iter_last.regs_before.sp = 48
    /\ stats.hit_count = 1

----------------------------------------------------------------------------
(* Claims about the dispatcher and its cache, checked under Spec *)

\* the step is an unwind_frame call
UnwindFrameStep == last'.op = "unwind_frame" /\ Total(stats') = Total(stats) + 1

\* before the step, the slot of address a holds a rule for a that the calling
\* unwinder inserted under its current generation
OwnRuleCachedBefore(a) ==
    /\ a % 509 \in DOMAIN entries
    /\ entries[a % 509].address = a
    /\ entry_ghost[a % 509].owner = last'.unwinder
    /\ entry_ghost[a % 509].alloc = unwinder_ghost[last'.unwinder].alloc

(* C33: the cache key ignores the frame kind: a rule cached for lookup address
   A during an InstructionPointer(A) frame is returned as a Hit and executed
   for a later ReturnAddress(A+1) frame of the same unwinder and generation,
   and vice versa; the adapter is not consulted again. *)
C33_KeyIgnoresFrameKind ==
    [][UnwindFrameStep =>
          LET a == ClaimedLookupAddress
              cached == entries[a % 509].unwind_rule
              first == last'.address.kind = "InstructionPointer"
          IN  (OwnRuleCachedBefore(a) /\ entry_ghost[a % 509].first_frame # first) =>
                 /\ last'.hit
                 /\ last'.rule = cached
                 /\ last'.callback = NotCalled
                 /\ ~last'.inserted
                 /\ entries' = entries
                 /\ \E out \in {exec(cached, last'.regs_before, read_stack,
                                     overflow_checks)} :
                        /\ last'.result = out.result
                        /\ regs' = out.regs]_vars

\* a return-address frame was unwound with the rule the adapter had emitted
\* for the first frame at the same lookup address
C33_Witness ==
    /\ last.op = "unwind_frame"
    /\ last.address = ReturnAddress(1019)
    /\ last.found.populated
    /\ last.found.same_address
    /\ last.found.owner = last.unwinder
    /\ last.found.first_frame
    /\ last.hit
    /\ last.rule = JustReturn
    /\ last.callback = NotCalled
    /\ last.result.kind = "Some"

\* the rule with_cache obtains after a Miss
ObtainedRule(module_found, callback) ==
    IF ~module_found THEN UseFramePointer
    ELSE IF callback.kind = "ExecRule" THEN callback.rule
    ELSE UseFramePointer

(* C34: a rule is cached before it is executed: after an unwind_frame call
   that missed the cache and obtained a rule (from the adapter, from an adapter
   error, or because no module was found), the cache holds (lookup address,
   generation, rule) even when executing the rule returned Err or Ok(None), so
   repeating the call is a cache Hit that executes the same rule. *)
C34_CachedBeforeExecuted ==
    [][(UnwindFrameStep /\ ~last'.hit /\ last'.callback.kind # "Uncacheable") =>
          LET a == ClaimedLookupAddress
              u == unwinders[last'.unwinder]
              rule == ObtainedRule(last'.module_found, last'.callback)
          IN  /\ last'.rule = rule
              /\ a % 509 \in DOMAIN entries'
              /\ entries'[a % 509] = CacheEntry(a, u.modules_generation, rule)
              /\ \A search \in binary_search_by_key(u.modules, a),
                    adapter_result \in AdapterInputs :
                    \E again \in {with_cache(u, last'.address, regs', read_stack,
                                              overflow_checks, entries', stats', search,
                                              adapter_result, RecoveredRegs)} :
                        /\ again.hit
                        /\ again.rule = rule
                        /\ again.callback = NotCalled
                        /\ again.entries = entries'
                        /\ last'.result.kind \in {"Err", "None"} =>
                              again.result = last'.result]_vars

\* the fallback rule obtained from an adapter error failed with
\* IntegerOverflow, and the cache holds it
C34_Witness ==
    /\ last.op = "unwind_frame"
    /\ ~last.hit
    /\ last.module_found
    /\ last.callback.kind = "Err"
    /\ last.regs_before = OverflowRegs
    /\ last.result = Err("IntegerOverflow", 0)
    /\ last.lookup_address % 509 \in DOMAIN entries
    /\ entries[last.lookup_address % 509].unwind_rule = UseFramePointer
    /\ entries[last.lookup_address % 509].address = last.lookup_address

----------------------------------------------------------------------------
(* Claims about the frame conditions and the statistics of the rule cache,
   checked under SpecCacheKept *)

CounterNames == {"hit_count", "miss_empty_slot_count", "miss_wrong_modules_count",
                 "miss_wrong_address_count"}

\* the step incremented counter k by one and left the other counters alone
BumpedOnly(k) ==
    /\ stats'[k] = stats[k] + 1
    /\ \A j \in CounterNames \ {k} : stats'[j] = stats[j]

(* C35: cache frame conditions: lookup never changes any cache slot (only one
   statistics counter); insert(handle, rule) overwrites exactly the slot
   handle.slot, leaves the other 508 slots and all statistics counters
   unchanged, and evicts whatever entry was in that slot, so a later lookup of
   the evicted address with its generation is a Miss. *)
C35_FrameConditions ==
    [][LET c == cache_hist'[Len(cache_hist')]
           slot == c.handle.slot
       IN  /\ Len(cache_hist') = Len(cache_hist) + 1
           /\ c.op = "lookup" =>
                 /\ entries' = entries
                 /\ \E k \in CounterNames : BumpedOnly(k)
           /\ c.op = "insert" =>
                 /\ stats' = stats
                 /\ DOMAIN entries' = DOMAIN entries \cup {slot}
                 /\ \A other \in DOMAIN entries \ {slot} :
                       entries'[other] = entries[other]
                 /\ entries'[slot] =
                       CacheEntry(c.handle.address, c.handle.modules_generation, c.rule)
                 /\ slot \in DOMAIN entries =>
                       ~lookup(entries', stats', entries[slot].address,
                               entries[slot].modules_generation).hit]_vars

\* an insert evicted the entry of a colliding address, and the lookup that
\* followed, of the evicted address with its generation, missed
C35_Witness ==
    /\ Len(cache_hist) = 5
    /\ cache_hist[4].op = "insert"
    /\ cache_hist[4].slot \in DOMAIN cache_hist[4].before
    /\ cache_hist[4].before[cache_hist[4].slot].address # cache_hist[4].address
    /\ cache_hist[5].op = "lookup"
    /\ cache_hist[5].address = cache_hist[4].before[cache_hist[4].slot].address
    /\ cache_hist[5].modules_generation =
          cache_hist[4].before[cache_hist[4].slot].modules_generation
    /\ ~cache_hist[5].hit
    /\ stats.miss_wrong_address_count = 2

\* the i-th call incremented exactly one counter, by one
OneCounterBumped(i) == \E k \in CounterNames : OnlyIncrements(i, k)

(* C36: statistics accounting: every lookup increments exactly one of
   hit_count, miss_empty_slot_count, miss_wrong_modules_count and
   miss_wrong_address_count by one, so after any sequence of lookups and
   inserts stats().total() equals the number of lookups performed and hits()
   equals the number of lookups that returned Hit; a slot with both a different
   generation and a different address is counted as wrong-modules. *)
C36_StatisticsAccounting ==
    /\ \A i \in Lookups : OneCounterBumped(i)
    /\ Total(stats) = Cardinality(Lookups)
    /\ hits(stats) = Cardinality({i \in Lookups : cache_hist[i].hit})
    /\ \A i \in Lookups :
          (/\ PopulatedAt(i)
           /\ StoredAt(i).modules_generation # cache_hist[i].modules_generation
           /\ StoredAt(i).address # cache_hist[i].address)
              => OnlyIncrements(i, "miss_wrong_modules_count")

\* a hit, a miss on an empty slot and two wrong-modules misses were counted,
\* one of them on a slot that held another address under another generation
C36_Witness ==
    /\ Len(cache_hist) = 5
    /\ Cardinality(Lookups) = 4
    /\ hits(stats) = 1
    /\ stats.miss_empty_slot_count = 1
    /\ stats.miss_wrong_modules_count = 2
    /\ \E i \in Lookups :
          /\ PopulatedAt(i)
          /\ StoredAt(i).modules_generation # cache_hist[i].modules_generation
          /\ StoredAt(i).address # cache_hist[i].address

----------------------------------------------------------------------------
(* Claims about null return addresses, checked under SpecIter *)

\* the last next() call called the dispatcher, which executed an unwind rule
\* (from a cache hit, from the adapter, or the fallback rule) and returned
ByRuleExecution ==
    /\ iter_last.called
    /\ iter_last.dispatch.made
    /\ iter_last.dispatch.callback.kind # "Uncacheable"
    /\ iter_last.dispatch.result.kind # "Panic"

(* C37: ReturnAddressIsNull is unreachable through rule execution: every
   unwind_frame result produced by executing an x86-64 unwind rule (cache hit,
   adapter ExecRule, or fallback) is Ok(None), Err, or Ok(Some(ra)) with
   ra != 0, so the iterator can return Err(ReturnAddressIsNull) only when the
   adapter returned Uncacheable(0). *)
C37_NullOnlyFromUncacheable ==
    /\ ByRuleExecution =>
          \/ iter_last.dispatch.result.kind \in {"None", "Err"}
          \/ /\ iter_last.dispatch.result.kind = "Some"
             /\ iter_last.dispatch.result.val # 0
    /\ ByRuleExecution => iter_last.result.err # "ReturnAddressIsNull"
    /\ (iter_last.called /\ iter_last.result.err = "ReturnAddressIsNull") =>
          /\ iter_last.dispatch.made
          /\ ~iter_last.dispatch.hit
          /\ iter_last.dispatch.callback = Uncacheable(0)

\* a rule the adapter emitted read a null return address: the dispatcher
\* returned Ok(None) and the walk is done
C37_Witness ==
    /\ ByRuleExecution
    /\ iter_last.dispatch.callback.kind = "ExecRule"
    /\ iter_last.dispatch.rule = JustReturn
    /\ iter_last.regs_before.sp = 112
    /\ iter_last.dispatch.result = OkNone
    /\ iter_last.result = FrameNone
    /\ state = Done

----------------------------------------------------------------------------
(* Claims about concurrent calls, checked under SpecThreads *)

\* threads that have made their fetch_add and not yet written their unwinder
Fetched == {t \in UnwinderIds : threads[t].pc = "fetched"}

\* how many fetch_add calls lie between the two that allocated the
\* generations unwinders u and v hold
AllocationsApart(u, v) ==
    LET d == unwinder_ghost[u].alloc - unwinder_ghost[v].alloc
    IN  IF d < 0 THEN 0 - d ELSE d

(* C38: concurrent generation allocation: when several threads concurrently
   create unwinders or call add_module/remove_module on distinct unwinder
   instances, the atomic fetch_add gives each call a distinct generation value
   and the global counter advances by exactly the number of calls (no lost
   update), so no two live unwinder instances ever hold the same generation
   before the counter wraps. *)
C38_ConcurrentAllocation ==
    /\ GLOBAL_MODULES_GENERATION = bumps % GenerationModulus
    /\ \A t \in Fetched : threads[t].value = threads[t].index % GenerationModulus
    /\ \A t, s \in Fetched :
          (t # s /\ bumps <= GenerationModulus) => threads[t].value # threads[s].value
    /\ \A u \in UnwinderIds :
          unwinders[u].created =>
              unwinders[u].modules_generation
                  = unwinder_ghost[u].alloc % GenerationModulus
    /\ \A u, v \in UnwinderIds :
          (u # v /\ unwinders[u].created /\ unwinders[v].created
                 /\ unwinders[u].modules_generation = unwinders[v].modules_generation)
              => AllocationsApart(u, v) >= GenerationModulus

\* two threads are inside a call at once, each with the value of its own
\* fetch_add, the first counter values handed out
C38_Witness ==
    /\ Fetched = UnwinderIds
    /\ bumps = GenerationModulus
    /\ threads[1].op = "new"
    /\ threads[2].op = "new"
    /\ threads[1].index > threads[2].index
    /\ threads[1].value # threads[2].value

====
